---- MODULE Spec2Model ----
(***************************************************************************)
(* The Immix block of the VM (vm/src/immix/block.rs): one 32 KB block of   *)
(* 256 lines of 128 bytes, its bump-allocation cursors, its two bitmaps,   *)
(* its status, hole count and bucket back-pointer.                         *)
(*                                                                         *)
(* Pointers are byte addresses.  A block's memory starts at b.lines, which *)
(* heap::allocate aligns to BLOCK_SIZE; an object slot is BYTES_PER_OBJECT *)
(* bytes, so slot s of a block is the address b.lines + s * 32.            *)
(***************************************************************************)
EXTENDS Integers, FiniteSets, Sequences, TLC

\* ------------------------------------------------------------ constants

BLOCK_SIZE == 32 * 1024

LINE_SIZE == 128

LINES_PER_BLOCK == BLOCK_SIZE \div LINE_SIZE

BYTES_PER_OBJECT == 32

OBJECTS_PER_BLOCK == BLOCK_SIZE \div BYTES_PER_OBJECT

OBJECTS_PER_LINE == LINE_SIZE \div BYTES_PER_OBJECT

OBJECT_START_SLOT == LINE_SIZE \div BYTES_PER_OBJECT

LINE_START_SLOT == 1

\* pointer as isize & LINE_BITMAP_MASK, the mask being !(LINE_SIZE - 1):
\* clears the low bits of a (non-negative) address.
LINE_BITMAP_MASK(pointer) == pointer - (pointer % LINE_SIZE)

\* ptr::null()
NULL == 0

\* RawObjectPointer::offset(count): count objects further.
offset(pointer, count) == pointer + count * BYTES_PER_OBJECT

\* ------------------------------------------------------------ bounds

\* Lines 1..MaxMarkLine, and the last line of the block, are the lines the
\* model marks as used.
MaxMarkLine == 3

\* In the block life-cycle specification (Spec) bump_allocate is called for
\* the first MaxAllocations slots of the block only, and find_available_hole
\* only while the cursor is in a line up to MaxHoleLine.  SpecCursor explores
\* the cursors of the whole block.
MaxAllocations == 1

MaxHoleLine == 1

MarkLines == (1 .. MaxMarkLine) \cup {LINES_PER_BLOCK - 1}

\* The bits the model sets in marked_objects_bitmap.
MarkSlots == {1}

\* Where heap::allocate(BLOCK_SIZE, BLOCK_SIZE) may place a block: non-null
\* and aligned to BLOCK_SIZE.
BlockAddresses == {3 * BLOCK_SIZE}

\* Addresses of the buckets a block is handed to.
BucketAddresses == {8}

\* ------------------------------------------------------------ bitmaps
\* immix::bitmap (LineMap, ObjectMap): a bitmap is the set of its set bits.

Bitmap_new == {}

Bitmap_set(bitmap, index) == bitmap \cup {index}

Bitmap_is_set(bitmap, index) == index \in bitmap

Bitmap_reset(bitmap) == {}

Bitmap_is_empty(bitmap) == bitmap = {}

Bitmap_len(bitmap) == Cardinality(bitmap)

\* ------------------------------------------------------------ Block

start_address(b) == offset(b.lines, OBJECT_START_SLOT)

end_address(b) == offset(b.lines, OBJECTS_PER_BLOCK)

\* Block::new, for the memory heap::allocate returned.
Block_new(lines) ==
    LET block == [lines |-> lines,
                  status |-> "Free",
                  marked_objects_bitmap |-> Bitmap_new,
                  used_lines_bitmap |-> Bitmap_new,
                  free_pointer |-> NULL,
                  end_pointer |-> NULL,
                  bucket |-> NULL,
                  holes |-> 1]
    IN [block EXCEPT !.free_pointer = start_address(block),
                     !.end_pointer = end_address(block)]

\* reset_bitmaps leaving the object marks in place.
reset_bitmaps_keeping_marks(b) ==
    [b EXCEPT !.used_lines_bitmap = Bitmap_reset(@)]

reset_bitmaps(b) ==
    [b EXCEPT !.used_lines_bitmap = Bitmap_reset(@),
              !.marked_objects_bitmap = Bitmap_reset(@)]

\* set_bucket leaving the back-pointer as it was.
set_bucket_not_assigning(b, bucket) == b

set_bucket(b, bucket) == [b EXCEPT !.bucket = bucket]

set_recyclable(b) == [b EXCEPT !.status = "Recyclable"]

set_fragmented(b) == [b EXCEPT !.status = "Fragmented"]

set_full(b) == [b EXCEPT !.status = "Full"]

is_available(b) == b.status \in {"Free", "Recyclable"}

\* is_empty with the test inverted.
is_empty_inverted(b) == ~Bitmap_is_empty(b.used_lines_bitmap)

is_empty(b) == Bitmap_is_empty(b.used_lines_bitmap)

\* bump_allocate marking the block as full with the allocation that takes
\* its last slot.
bump_allocate_setting_full(b) ==
    [block |-> [b EXCEPT !.free_pointer = offset(b.free_pointer, 1),
                         !.status = IF offset(b.free_pointer, 1) = end_address(b)
                                    THEN "Full" ELSE @],
     pointer |-> b.free_pointer]

\* bump_allocate leaving the cursor where it was.
bump_allocate_not_advancing(b) ==
    [block |-> b, pointer |-> b.free_pointer]

\* bump_allocate marking the line of the slot written as used.
bump_allocate_marking_line(b) ==
    [block |-> [b EXCEPT !.free_pointer = offset(b.free_pointer, 1),
                         !.used_lines_bitmap =
                             Bitmap_set(@, (LINE_BITMAP_MASK(b.free_pointer) - b.lines)
                                               \div LINE_SIZE)],
     pointer |-> b.free_pointer]

\* bump_allocate returning the advanced cursor instead of the slot written.
bump_allocate_returning_advanced(b) ==
    [block |-> [b EXCEPT !.free_pointer = offset(b.free_pointer, 1)],
     pointer |-> offset(b.free_pointer, 1)]

\* The block after the allocation and the pointer returned; the object is
\* written to the slot the returned pointer addresses.
bump_allocate(b) ==
    [block |-> [b EXCEPT !.free_pointer = offset(b.free_pointer, 1)],
     pointer |-> b.free_pointer]

can_bump_allocate(b) == b.free_pointer < b.end_pointer

line_index_of_pointer(b, pointer) ==
    LET first_line == b.lines
        line_addr == LINE_BITMAP_MASK(pointer)
    IN (line_addr - first_line) \div LINE_SIZE

\* The for loop of find_available_hole, from current_line_index on, with
\* line_pointer as the previous iteration left it.
RECURSIVE find_available_hole_loop(_, _, _)
find_available_hole_loop(b, current_line_index, line_pointer) ==
    IF current_line_index >= LINES_PER_BLOCK
    THEN b
    ELSE LET next_pointer == offset(line_pointer, OBJECTS_PER_LINE)
         IN IF ~Bitmap_is_set(b.used_lines_bitmap, current_line_index)
            THEN [b EXCEPT !.free_pointer = next_pointer,
                           !.end_pointer = offset(next_pointer, OBJECTS_PER_LINE)]
            ELSE find_available_hole_loop(b, current_line_index + 1, next_pointer)

\* find_available_hole scanning from the cursor's own line instead of the
\* line after it.
find_available_hole_from_current_line(b) ==
    IF b.free_pointer = end_address(b)
    THEN b
    ELSE LET line_index == line_index_of_pointer(b, b.free_pointer)
         IN find_available_hole_loop(
                b, line_index, offset(b.free_pointer, 0 - OBJECTS_PER_LINE))

\* find_available_hole marking the block as consumed when it finds no hole.
find_available_hole_consuming(b) ==
    IF b.free_pointer = end_address(b)
    THEN b
    ELSE LET line_index == line_index_of_pointer(b, b.free_pointer)
             found == find_available_hole_loop(b, line_index + 1, b.free_pointer)
         IN IF found = b
            THEN [b EXCEPT !.free_pointer = end_address(b),
                           !.end_pointer = end_address(b)]
            ELSE found

find_available_hole(b) ==
    IF b.free_pointer = end_address(b)
    THEN b
    ELSE LET line_index == line_index_of_pointer(b, b.free_pointer)
         IN find_available_hole_loop(b, line_index + 1, b.free_pointer)

\* reset leaving the bucket back-pointer in place.
reset_keeping_bucket(b) ==
    reset_bitmaps([b EXCEPT !.status = "Free",
                            !.holes = 1,
                            !.free_pointer = start_address(b),
                            !.end_pointer = end_address(b)])

reset(b) ==
    reset_bitmaps([b EXCEPT !.status = "Free",
                            !.holes = 1,
                            !.free_pointer = start_address(b),
                            !.end_pointer = end_address(b),
                            !.bucket = NULL])

\* One iteration of the for loop of update_hole_count: the loop's state is
\* in_hole and self.holes.
update_hole_count_step(b, state, index) ==
    LET is_set == Bitmap_is_set(b.used_lines_bitmap, index)
    IN IF state.in_hole /\ is_set
       THEN [state EXCEPT !.in_hole = FALSE]
       ELSE IF ~state.in_hole /\ ~is_set
            THEN [in_hole |-> TRUE, holes |-> state.holes + 1]
            ELSE state

\* The iterations of the for loop for index in first..(last - 1), in order,
\* from the loop state `state`.  The range is run as two halves, one after
\* the other; the state the first half leaves is computed before the second
\* half starts (the bound variable half), which keeps the evaluation shallow.
RECURSIVE update_hole_count_loop(_, _, _, _)
update_hole_count_loop(b, state, first, last) ==
    IF first >= last
    THEN state
    ELSE IF last - first = 1
         THEN update_hole_count_step(b, state, first)
         ELSE LET middle == (first + last) \div 2
              IN CHOOSE final \in
                     {update_hole_count_loop(b, half, middle, last) :
                          half \in {update_hole_count_loop(b, state, first, middle)}} :
                     TRUE

\* update_hole_count scanning from line 0 instead of LINE_START_SLOT.
update_hole_count_from_line_0(b) ==
    LET state == update_hole_count_loop(
                     b, [in_hole |-> FALSE, holes |-> 0], 0, LINES_PER_BLOCK)
    IN [b EXCEPT !.holes = state.holes]

update_hole_count(b) ==
    LET state == update_hole_count_loop(
                     b, [in_hole |-> FALSE, holes |-> 0],
                     LINE_START_SLOT, LINES_PER_BLOCK)
    IN [b EXCEPT !.holes = state.holes]

\* marked_lines_count counting the marked objects.
marked_lines_count_of_objects(b) == Bitmap_len(b.marked_objects_bitmap)

marked_lines_count(b) == Bitmap_len(b.used_lines_bitmap)

available_lines_count(b) == (LINES_PER_BLOCK - 1) - marked_lines_count(b)

\* ------------------------------------------------------------ state

VARIABLES
    block,              \* the Block
    op,                 \* the operation called last
    result,             \* the pointer the last operation returned, if any
    fresh_allocations,  \* bump_allocate calls since Block::new or reset,
                        \* or NotFresh once find_available_hole was called
    alloc,              \* the allocators of a process and the global allocator
    copy,               \* the objects in memory and the copy_object under way
    vm,                 \* the processes: their registers and mailboxes
    lexer               \* the Lexer: its input, cursor and peeked token

vars == <<block, op, result, fresh_allocations, alloc, copy, vm, lexer>>

\* The value of the variable of a part of the program that a specification
\* leaves out.
NotConstructed == "not constructed"

\* The parts of the program outside the single Block.
outside_block == <<alloc, copy, vm, lexer>>

\* No pointer was returned.
NoResult == NULL

\* Not a count: find_available_hole was called since Block::new or reset.
NotFresh == 0 - 1

Init ==
    /\ \E lines \in BlockAddresses : block = Block_new(lines)
    /\ op = "new"
    /\ result = NoResult
    /\ fresh_allocations = 0
    /\ alloc = NotConstructed
    /\ copy = NotConstructed
    /\ lexer = NotConstructed
    /\ vm = NotConstructed

\* ------------------------------------------------------------ operations

BumpAllocate ==
    /\ can_bump_allocate(block)
    /\ block' = bump_allocate(block).block
    /\ result' = bump_allocate(block).pointer
    /\ op' = "bump_allocate"
    /\ UNCHANGED outside_block
    /\ fresh_allocations' =
         IF fresh_allocations = NotFresh THEN NotFresh ELSE fresh_allocations + 1

FindAvailableHole ==
    /\ block' = find_available_hole(block)
    /\ result' = NoResult
    /\ op' = "find_available_hole"
    /\ UNCHANGED outside_block
    /\ fresh_allocations' = NotFresh

\* block.used_lines_bitmap.set(index)
SetUsedLine ==
    \E index \in MarkLines :
        /\ block' = [block EXCEPT !.used_lines_bitmap = Bitmap_set(@, index)]
        /\ result' = NoResult
        /\ op' = "used_lines_bitmap.set"
        /\ UNCHANGED outside_block
        /\ UNCHANGED fresh_allocations

\* block.marked_objects_bitmap.set(index)
SetMarkedObject ==
    \E index \in MarkSlots :
        /\ block' = [block EXCEPT !.marked_objects_bitmap = Bitmap_set(@, index)]
        /\ result' = NoResult
        /\ op' = "marked_objects_bitmap.set"
        /\ UNCHANGED outside_block
        /\ UNCHANGED fresh_allocations

ResetBitmaps ==
    /\ block' = reset_bitmaps(block)
    /\ result' = NoResult
    /\ op' = "reset_bitmaps"
    /\ UNCHANGED outside_block
    /\ UNCHANGED fresh_allocations

SetBucket ==
    \E bucket \in BucketAddresses :
        /\ block' = set_bucket(block, bucket)
        /\ result' = NoResult
        /\ op' = "set_bucket"
        /\ UNCHANGED outside_block
        /\ UNCHANGED fresh_allocations

SetRecyclable ==
    /\ block' = set_recyclable(block)
    /\ result' = NoResult
    /\ op' = "set_recyclable"
    /\ UNCHANGED outside_block
    /\ UNCHANGED fresh_allocations

SetFragmented ==
    /\ block' = set_fragmented(block)
    /\ result' = NoResult
    /\ op' = "set_fragmented"
    /\ UNCHANGED outside_block
    /\ UNCHANGED fresh_allocations

SetFull ==
    /\ block' = set_full(block)
    /\ result' = NoResult
    /\ op' = "set_full"
    /\ UNCHANGED outside_block
    /\ UNCHANGED fresh_allocations

Reset ==
    /\ block' = reset(block)
    /\ result' = NoResult
    /\ op' = "reset"
    /\ UNCHANGED outside_block
    /\ fresh_allocations' = 0

UpdateHoleCount ==
    /\ block' = update_hole_count(block)
    /\ result' = NoResult
    /\ op' = "update_hole_count"
    /\ UNCHANGED outside_block
    /\ UNCHANGED fresh_allocations

\* bump_allocate within the first MaxAllocations slots of the block.
BumpAllocateFirst ==
    /\ block.free_pointer < offset(start_address(block), MaxAllocations)
    /\ BumpAllocate

\* find_available_hole with the cursor in a line up to MaxHoleLine.
FindAvailableHoleFirst ==
    /\ line_index_of_pointer(block, block.free_pointer) <= MaxHoleLine
    /\ FindAvailableHole

\* ------------------------------------------------------------ specifications

\* The life cycle of a block: every operation of Block.
Next ==
    \/ BumpAllocateFirst
    \/ FindAvailableHoleFirst
    \/ SetUsedLine
    \/ SetMarkedObject
    \/ ResetBitmaps
    \/ SetBucket
    \/ SetRecyclable
    \/ SetFragmented
    \/ SetFull
    \/ Reset
    \/ UpdateHoleCount

Spec == Init /\ [][Next]_vars

\* The allocation cursors over the whole block: allocation, hole finding,
\* line marking and reset.
NextCursor ==
    \/ BumpAllocate
    \/ FindAvailableHole
    \/ SetUsedLine
    \/ Reset

SpecCursor == Init /\ [][NextCursor]_vars

\* update_hole_count as a function of the line bitmap: the block starts with
\* any of the bitmaps of UsedLineBitmaps and any of the hole counts of
\* StaleHoles, and update_hole_count is called.
HoleCountLineGroups ==
    {{0}, {1}, {2}, {3}, 4 .. 9, {10},
     11 .. (LINES_PER_BLOCK - 2), {LINES_PER_BLOCK - 1}}

UsedLineBitmaps == {UNION groups : groups \in SUBSET HoleCountLineGroups}

StaleHoles == {0, 1, 4}

InitHoles ==
    /\ \E lines \in BlockAddresses, bitmap \in UsedLineBitmaps, holes \in StaleHoles :
           block = [Block_new(lines) EXCEPT !.used_lines_bitmap = bitmap,
                                            !.holes = holes]
    /\ op = "new"
    /\ result = NoResult
    /\ fresh_allocations = 0
    /\ alloc = NotConstructed
    /\ copy = NotConstructed
    /\ lexer = NotConstructed
    /\ vm = NotConstructed

NextHoles == UpdateHoleCount

SpecHoles == InitHoles /\ [][NextHoles]_vars

\* ------------------------------------------------------------ properties

\* The address of slot `slot` of block b.
slot_address(b, slot) == offset(b.lines, slot)

\* The lines after the line of b's cursor that are not marked as used.
UnsetLinesAfterCursor(b) ==
    {line \in 0 .. (LINES_PER_BLOCK - 1) :
        /\ line > line_index_of_pointer(b, b.free_pointer)
        /\ ~Bitmap_is_set(b.used_lines_bitmap, line)}

\* The least element of a non-empty set of numbers.
Lowest(S) == CHOOSE x \in S : \A y \in S : x <= y

\* The slots bump_allocate can hand out of b, guarded by can_bump_allocate,
\* until the cursors are moved again: free_pointer up to end_pointer.
AllocatableSlots(b) ==
    {pointer \in {offset(b.free_pointer, count) : count \in 0 .. (OBJECTS_PER_LINE - 1)} :
        pointer < b.end_pointer}

\* The number of maximal runs of unset bits of a line bitmap among lines
\* 1..255: the unset lines that start a run.
HoleRuns(bitmap) ==
    Cardinality({line \in LINE_START_SLOT .. (LINES_PER_BLOCK - 1) :
                    /\ line \notin bitmap
                    /\ line = LINE_START_SLOT \/ (line - 1) \in bitmap})

HolesCurrent(b) == b.holes = HoleRuns(b.used_lines_bitmap)

\* C1: the cursors of a block are ordered, start_address <= free_pointer <=
\* end_pointer <= end_address, after any sequence of bump allocations,
\* find_available_hole calls and line markings.
C1_CursorsOrdered ==
    /\ start_address(block) <= block.free_pointer
    /\ block.free_pointer <= block.end_pointer
    /\ block.end_pointer <= end_address(block)

\* C2: every pointer bump_allocate returns addresses a slot of the object
\* region of the block, slots 4 to 1023: neither the header slots 0..3 nor a
\* slot at or past 1024 is written.
C2_AllocationInObjectRegion ==
    op = "bump_allocate" =>
        /\ slot_address(block, OBJECT_START_SLOT) <= result
        /\ result < slot_address(block, OBJECTS_PER_BLOCK)

\* C3: whenever find_available_hole moves the cursor, the new free_pointer
\* is the first slot of a line and the new end_pointer is the end of that
\* line.
C3_HoleIsOneWholeLine ==
    [][(op' = "find_available_hole" /\ block' # block) =>
          /\ LINE_BITMAP_MASK(block'.free_pointer) = block'.free_pointer
          /\ block'.end_pointer = offset(block'.free_pointer, OBJECTS_PER_LINE)]_vars

\* C4: after a find_available_hole that moves the cursor, every slot that
\* bump_allocate can hand out lies in a line that was not marked as used
\* when find_available_hole was called.
C4_HoleAvoidsUsedLines ==
    [][(op' = "find_available_hole" /\ block' # block) =>
          \A pointer \in AllocatableSlots(block') :
              ~Bitmap_is_set(block.used_lines_bitmap,
                             line_index_of_pointer(block, pointer))]_vars

\* C5: find_available_hole called with the cursor in line L, not at the
\* block end, and some line after L unset: the next bump allocation returns
\* a pointer whose line index is the lowest unset line index above L.
C5_NextAllocationInLowestUnsetLine ==
    [][(/\ op' = "find_available_hole"
        /\ block.free_pointer # end_address(block)
        /\ UnsetLinesAfterCursor(block) # {}) =>
          /\ can_bump_allocate(block')
          /\ line_index_of_pointer(block', bump_allocate(block').pointer)
                 = Lowest(UnsetLinesAfterCursor(block))]_vars

C5_Witness ==
    /\ op = "find_available_hole"
    /\ {2, 3} \subseteq block.used_lines_bitmap
    /\ 4 \notin block.used_lines_bitmap
    /\ block.free_pointer = slot_address(block, 18)
    /\ block.end_pointer = slot_address(block, 22)
    /\ line_index_of_pointer(block, bump_allocate(block).pointer) = 4

\* C6: find_available_hole changes no field of the block when free_pointer
\* is the block end address, and when no line after the cursor's line is
\* unset.
C6_NoHoleLeavesBlockUnchanged ==
    [][(/\ op' = "find_available_hole"
        /\ \/ block.free_pointer = end_address(block)
           \/ UnsetLinesAfterCursor(block) = {}) =>
          block' = block]_vars

\* find_available_hole was called with the cursor in line 254, short of the
\* block end, and line 255 marked.
C6_Witness ==
    /\ op = "find_available_hole"
    /\ block.free_pointer # end_address(block)
    /\ line_index_of_pointer(block, block.free_pointer) = LINES_PER_BLOCK - 2
    /\ UnsetLinesAfterCursor(block) = {}
    /\ block.end_pointer = offset(block.free_pointer, OBJECTS_PER_LINE)

\* C7: reset, from any reachable state of a block, yields the state of a
\* freshly constructed block, and a second reset changes nothing.
C7_ResetYieldsNewBlock ==
    /\ reset(block) = Block_new(block.lines)
    /\ reset(reset(block)) = reset(block)
    /\ op = "reset" => block = Block_new(block.lines)

\* A state that differs from a new block in every field reset assigns (the
\* state test_reset builds); reset is called from it.
C7_Witness ==
    /\ block.status = "Recyclable"
    /\ block.holes = 2
    /\ block.free_pointer # start_address(block)
    /\ block.end_pointer # end_address(block)
    /\ block.bucket # NULL
    /\ block.used_lines_bitmap # {}
    /\ block.marked_objects_bitmap # {}
    /\ reset(block) # block

\* C8: for every content of used_lines_bitmap and every previous value of
\* holes, update_hole_count sets holes to the number of maximal runs of
\* unset bits among lines 1..255: 3 for lines {1, 3, 10} set, 1 for no line
\* set, 0 for lines 1..255 all set.
C8_UpdateHoleCountCountsRuns ==
    /\ update_hole_count(block).holes = HoleRuns(block.used_lines_bitmap)
    /\ op = "update_hole_count" => HolesCurrent(block)
    /\ block.used_lines_bitmap = {1, 3, 10} => update_hole_count(block).holes = 3
    /\ block.used_lines_bitmap = {} => update_hole_count(block).holes = 1
    /\ (LINE_START_SLOT .. (LINES_PER_BLOCK - 1)) \subseteq block.used_lines_bitmap
           => update_hole_count(block).holes = 0

C8_Witness ==
    /\ op = "update_hole_count"
    /\ block.used_lines_bitmap = {1, 3, 10}
    /\ block.holes = 3

\* C9 as claimed: in every reachable state of a block, holes is the number
\* of maximal runs of unset bits of used_lines_bitmap over lines 1..255.
C9_HolesAlwaysCurrent == HolesCurrent(block)

\* C9 as amended: holes is the number of maximal runs of unset bits of
\* used_lines_bitmap over lines 1..255 in a new block, right after reset and
\* right after update_hole_count, and stays so as long as used_lines_bitmap
\* is not changed.
C9_HolesCurrentUntilLinesChange ==
    /\ op = "new" => HolesCurrent(block)
    /\ [][/\ op' \in {"reset", "update_hole_count"} => HolesCurrent(block')
          /\ (/\ HolesCurrent(block)
              /\ block'.used_lines_bitmap = block.used_lines_bitmap)
                 => HolesCurrent(block')]_vars

C9_Witness ==
    /\ op = "update_hole_count"
    /\ block.holes = 2
    /\ HolesCurrent(block)
    /\ block.used_lines_bitmap # {}

\* C10: in a new or reset block the k-th bump allocation (k = 0, 1, ...)
\* with no find_available_hole in between returns slot 4 + k, whose line
\* index is (4 + k) div 4; no allocation returns a pointer of line index 0.
C10_FreshAllocationsAreConsecutive ==
    op = "bump_allocate" =>
        /\ line_index_of_pointer(block, result) >= 1
        /\ fresh_allocations # NotFresh =>
              LET k == fresh_allocations - 1
              IN /\ result = slot_address(block, OBJECT_START_SLOT + k)
                 /\ line_index_of_pointer(block, result)
                        = (OBJECT_START_SLOT + k) \div OBJECTS_PER_LINE

C10_Witness ==
    /\ op = "bump_allocate"
    /\ fresh_allocations = 6
    /\ result = slot_address(block, 9)
    /\ line_index_of_pointer(block, result) = 2

\* ------------------------------------------------------------ buckets

\* The age of the young bucket of a local allocator.
YOUNG == 0

\* The age of the bucket of a mailbox allocator.
MAILBOX == 2

\* The value of block_allocations up to which an allocator requests blocks.
MaxBlockAllocations == 2

\* A bucket: the blocks it owns, the index of the block it allocates into
\* (from 1; 1 while it owns no block) and its age.
Bucket_with_age(age) == [blocks |-> <<>>, current_block |-> 1, age |-> age]

\* The hole count above which prepare_for_collection marks a block as
\* fragmented.
FragmentationThreshold == 1

\* The global allocator: its free list, and the number of blocks it has
\* created, which gives the next block its address.
GlobalAllocator_new == [blocks |-> <<>>, created |-> 0]

GlobalAllocator_request_block(global) ==
    IF global.blocks # <<>>
    THEN [global |-> [global EXCEPT !.blocks = SubSeq(@, 1, Len(@) - 1)],
          block |-> reset(global.blocks[Len(global.blocks)])]
    ELSE [global |-> [global EXCEPT !.created = @ + 1],
          block |-> reset(Block_new((global.created + 1) * BLOCK_SIZE))]

GlobalAllocator_add_block(global, b) ==
    [global EXCEPT !.blocks = Append(@, b)]

\* Bucket.allocate of a bucket at `address`: the bucket and the global
\* allocator afterwards, whether a block was requested, and the pointer.
Bucket_allocate(bucket, address, global) ==
    LET owns == bucket.blocks # <<>>
        current == bucket.blocks[bucket.current_block]
        next_available ==
            {index \in (bucket.current_block + 1) .. Len(bucket.blocks) :
                is_available(bucket.blocks[index])}
        allocate_in(index, b) ==
            [bucket |-> [bucket EXCEPT !.blocks[index] = bump_allocate(b).block,
                                       !.current_block = index],
             global |-> global,
             new_block |-> FALSE,
             pointer |-> bump_allocate(b).pointer]
    IN  IF owns /\ can_bump_allocate(current)
        THEN allocate_in(bucket.current_block, current)
        ELSE IF owns /\ can_bump_allocate(find_available_hole(current))
        THEN allocate_in(bucket.current_block, find_available_hole(current))
        ELSE IF owns /\ next_available # {}
        THEN allocate_in(Lowest(next_available),
                         bucket.blocks[Lowest(next_available)])
        ELSE LET request == GlobalAllocator_request_block(global)
                 requested == set_bucket(request.block, address)
             IN  [bucket |-> [bucket EXCEPT
                                 !.blocks = Append(@, bump_allocate(requested).block),
                                 !.current_block = Len(bucket.blocks) + 1],
                  global |-> request.global,
                  new_block |-> TRUE,
                  pointer |-> bump_allocate(requested).pointer]

\* Bucket.prepare_for_collection: the bucket afterwards, and whether blocks
\* are to be evacuated.
Bucket_prepare_for_collection(bucket) ==
    LET fragmented(b) == b.holes > FragmentationThreshold
    IN  [bucket |-> [bucket EXCEPT !.blocks =
                        [index \in 1 .. Len(bucket.blocks) |->
                            IF fragmented(bucket.blocks[index])
                            THEN set_fragmented(bucket.blocks[index])
                            ELSE bucket.blocks[index]]],
         evacuate |-> \E index \in 1 .. Len(bucket.blocks) :
                          fragmented(bucket.blocks[index])]

\* What reclaim_blocks does to a block the bucket keeps.
Bucket_reclaim_kept(b) ==
    LET counted == update_hole_count(b)
    IN  IF counted.holes > 0 THEN set_recyclable(counted) ELSE set_full(counted)

\* Bucket.reclaim_blocks: the bucket afterwards and the blocks it yields.
Bucket_reclaim_blocks(bucket) ==
    LET kept(b) == ~is_empty(b)
        kept_before(index) ==
            Cardinality({other \in (1 .. index) \cap DOMAIN bucket.blocks :
                            kept(bucket.blocks[other])})
        kept_blocks == SelectSeq(bucket.blocks, kept)
    IN  [bucket |-> [bucket EXCEPT
                        !.blocks = [index \in 1 .. Len(kept_blocks) |->
                                       Bucket_reclaim_kept(kept_blocks[index])],
                        !.current_block =
                            IF kept_before(bucket.current_block) = 0
                            THEN 1
                            ELSE kept_before(bucket.current_block)],
         reclaimed |-> SelectSeq(bucket.blocks, is_empty)]

\* ------------------------------------------------------------ mailbox allocators

\* The mailbox allocators: one per process.
Allocators == {1}

\* The address of the bucket of allocator a, which the blocks it owns point
\* back to.
bucket_address(a) == 8 * a

MailboxAllocator_new ==
    [bucket |-> Bucket_with_age(MAILBOX),
     block_allocations |-> 0,
     block_allocation_threshold |-> (1 * 1024 * 1024) \div BLOCK_SIZE]

\* allocate that counts every allocation as a block allocation.
MailboxAllocator_allocate_counting_each(self, address, global) ==
    LET allocated == Bucket_allocate(self.bucket, address, global)
    IN  [self |-> [self EXCEPT
                      !.bucket = allocated.bucket,
                      !.block_allocations = @ + 1],
         global |-> allocated.global,
         pointer |-> allocated.pointer]

\* allocate that leaves the global allocator as it was.
MailboxAllocator_allocate_keeping_pool(self, address, global) ==
    LET allocated == Bucket_allocate(self.bucket, address, global)
    IN  [self |-> [self EXCEPT
                      !.bucket = allocated.bucket,
                      !.block_allocations =
                          IF allocated.new_block THEN @ + 1 ELSE @],
         global |-> global,
         pointer |-> allocated.pointer]

\* allocate of allocator `self` at bucket address `address`: the allocator
\* and the global allocator afterwards, and the pointer.
MailboxAllocator_allocate(self, address, global) ==
    LET allocated == Bucket_allocate(self.bucket, address, global)
    IN  [self |-> [self EXCEPT
                      !.bucket = allocated.bucket,
                      !.block_allocations =
                          IF allocated.new_block THEN @ + 1 ELSE @],
         global |-> allocated.global,
         pointer |-> allocated.pointer]

MailboxAllocator_prepare_for_collection(self) ==
    [self |-> [self EXCEPT
                  !.bucket = Bucket_prepare_for_collection(self.bucket).bucket],
     evacuate |-> Bucket_prepare_for_collection(self.bucket).evacuate]

\* global.add_block for each block of a sequence, in order.
RECURSIVE add_blocks(_, _)
add_blocks(global, blocks) ==
    IF blocks = <<>> THEN global
    ELSE add_blocks(GlobalAllocator_add_block(global, Head(blocks)), Tail(blocks))

MailboxAllocator_reclaim_blocks(self, global) ==
    LET reclaimed == Bucket_reclaim_blocks(self.bucket)
    IN  [self |-> [self EXCEPT !.bucket = reclaimed.bucket],
         global |-> add_blocks(global, reclaimed.reclaimed)]

\* Drop with the reset left out.
MailboxAllocator_drop_without_reset(self, global) ==
    [self |-> [self EXCEPT !.bucket.blocks = <<>>],
     global |-> add_blocks(global, self.bucket.blocks)]

MailboxAllocator_drop(self, global) ==
    [self |-> [self EXCEPT !.bucket.blocks = <<>>],
     global |-> add_blocks(global,
                           [index \in 1 .. Len(self.bucket.blocks) |->
                               reset(self.bucket.blocks[index])])]

\* ------------------------------------------------------------ local allocators

\* The address of the young bucket of the local allocator.
young_bucket_address == 4

LocalAllocator_new ==
    [young_generation |-> Bucket_with_age(YOUNG),
     young_block_allocations |-> 0]

\* allocate_without_prototype of a local allocator: the allocator and the
\* global allocator afterwards, and the pointer.
LocalAllocator_allocate_without_prototype(self, global) ==
    LET allocated == Bucket_allocate(self.young_generation, young_bucket_address, global)
    IN  [self |-> [self EXCEPT
                      !.young_generation = allocated.bucket,
                      !.young_block_allocations =
                          IF allocated.new_block THEN @ + 1 ELSE @],
         global |-> allocated.global,
         pointer |-> allocated.pointer]

\* ------------------------------------------------------------ collection

\* The objects of a block that a collection finds reachable, by slot: none,
\* the first object, the first objects of lines 1 and 3, or every object of
\* a block that is allocated to its end.
Survivors ==
    [none |-> {},
     first |-> {OBJECT_START_SLOT},
     sparse |-> {OBJECT_START_SLOT, OBJECT_START_SLOT + 2 * OBJECTS_PER_LINE},
     all |-> OBJECT_START_SLOT .. (OBJECTS_PER_BLOCK - 1)]

\* The choices of Survivors open to block b: its allocated objects.
SurvivorChoices(b) ==
    {choice \in DOMAIN Survivors :
        /\ \A slot \in Survivors[choice] : slot_address(b, slot) < b.free_pointer
        /\ choice = "all" => b.free_pointer = end_address(b)}

\* Marking the objects of a set of slots: the bitmaps are reset, then each
\* object's mark bit and its line's used bit are set.
mark(b, slots) ==
    [reset_bitmaps(b) EXCEPT
        !.marked_objects_bitmap =
            UNION {Bitmap_set(Bitmap_new, slot) : slot \in slots},
        !.used_lines_bitmap =
            UNION {Bitmap_set(Bitmap_new, slot \div OBJECTS_PER_LINE) : slot \in slots}]

\* ------------------------------------------------------------ allocator operations

\* No allocator has acted.
NoActor == 0

\* alloc.collection[a] is the phase of the collection of allocator a:
\* "none" while its process runs, then "prepared", then "marked".
InitMailbox ==
    /\ block = NotConstructed
    /\ op = "new"
    /\ result = NoResult
    /\ fresh_allocations = 0
    /\ alloc = [mailbox |-> [a \in Allocators |-> MailboxAllocator_new],
                local |-> LocalAllocator_new,
                collection |-> [a \in Allocators |-> "none"],
                dropped |-> {},
                global |-> GlobalAllocator_new,
                actor |-> NoActor]
    /\ copy = NotConstructed
    /\ lexer = NotConstructed
    /\ vm = NotConstructed

\* The operations leave the single Block alone.
outside_allocators == <<block, fresh_allocations, copy, vm, lexer>>

\* Allocator a allocates; it requests a block from the global allocator
\* while its block_allocations is below MaxBlockAllocations.
Allocate(a) ==
    LET self == alloc.mailbox[a]
        allocated == MailboxAllocator_allocate(self, bucket_address(a), alloc.global)
    IN  /\ a \notin alloc.dropped
        /\ alloc.collection[a] = "none"
        /\ allocated.self.block_allocations <= MaxBlockAllocations
        /\ alloc' = [alloc EXCEPT !.mailbox[a] = allocated.self,
                                  !.global = allocated.global,
                                  !.actor = a]
        /\ result' = allocated.pointer
        /\ op' = "allocate"
        /\ UNCHANGED outside_allocators

\* A collection of allocator a starts, and the allocator is dropped, between
\* the fillings of its blocks: each block holds at most MaxAllocations
\* objects or cannot bump allocate.
BetweenFillings(a) ==
    /\ a \notin alloc.dropped
    /\ alloc.collection[a] = "none"
    /\ \A index \in DOMAIN alloc.mailbox[a].bucket.blocks :
           LET b == alloc.mailbox[a].bucket.blocks[index]
           IN  \/ b.free_pointer <= offset(start_address(b), MaxAllocations)
               \/ ~can_bump_allocate(b)

PrepareForCollection(a) ==
    /\ BetweenFillings(a)
    /\ alloc' = [alloc EXCEPT
                    !.mailbox[a] = MailboxAllocator_prepare_for_collection(@).self,
                    !.collection[a] = "prepared",
                    !.actor = a]
    /\ result' = NoResult
    /\ op' = "prepare_for_collection"
    /\ UNCHANGED outside_allocators

\* The collector marks the reachable objects of the blocks of allocator a.
Mark(a) ==
    LET blocks == alloc.mailbox[a].bucket.blocks
    IN  /\ alloc.collection[a] = "prepared"
        /\ \E choices \in [DOMAIN blocks -> DOMAIN Survivors] :
               /\ \A index \in DOMAIN blocks :
                      choices[index] \in SurvivorChoices(blocks[index])
               /\ alloc' = [alloc EXCEPT
                               !.mailbox[a].bucket.blocks =
                                   [index \in DOMAIN blocks |->
                                       mark(blocks[index], Survivors[choices[index]])],
                               !.collection[a] = "marked",
                               !.actor = a]
        /\ result' = NoResult
        /\ op' = "mark"
        /\ UNCHANGED outside_allocators

ReclaimBlocks(a) ==
    LET reclaimed == MailboxAllocator_reclaim_blocks(alloc.mailbox[a], alloc.global)
    IN  /\ alloc.collection[a] = "marked"
        /\ alloc' = [alloc EXCEPT !.mailbox[a] = reclaimed.self,
                                  !.collection[a] = "none",
                                  !.global = reclaimed.global,
                                  !.actor = a]
        /\ result' = NoResult
        /\ op' = "reclaim_blocks"
        /\ UNCHANGED outside_allocators

Drop(a) ==
    LET dropped == MailboxAllocator_drop(alloc.mailbox[a], alloc.global)
    IN  /\ BetweenFillings(a)
        /\ alloc' = [alloc EXCEPT !.mailbox[a] = dropped.self,
                                  !.dropped = @ \cup {a},
                                  !.global = dropped.global,
                                  !.actor = a]
        /\ result' = NoResult
        /\ op' = "drop"
        /\ UNCHANGED outside_allocators

\* The life of the mailbox allocators over one global allocator.
NextMailbox ==
    \/ \E a \in Allocators : Allocate(a)
    \/ \E a \in Allocators : PrepareForCollection(a)
    \/ \E a \in Allocators : Mark(a)
    \/ \E a \in Allocators : ReclaimBlocks(a)
    \/ \E a \in Allocators : Drop(a)

SpecMailbox == InitMailbox /\ [][NextMailbox]_vars

\* ------------------------------------------------------------ allocator properties

\* Block b is in the state reset leaves a block in: free, owned by no
\* bucket, nothing marked, the cursors at the start and the end of the block.
InResetState(b) ==
    /\ b.status = "Free"
    /\ b.bucket = NULL
    /\ b.marked_objects_bitmap = {}
    /\ b.used_lines_bitmap = {}
    /\ b.free_pointer = slot_address(b, OBJECT_START_SLOT)
    /\ b.end_pointer = slot_address(b, OBJECTS_PER_BLOCK)

\* C11: dropping a mailbox allocator that owns n blocks adds exactly those n
\* blocks to the free list of the global allocator, behind the blocks that
\* were there, each in the reset state, and leaves the bucket with no
\* blocks; the drop after one allocation from an empty pool leaves a pool
\* of exactly one block.
C11_DropReturnsEveryBlockReset ==
    [][op' = "drop" =>
        LET a == alloc'.actor
            owned == alloc.mailbox[a].bucket.blocks
            before == alloc.global.blocks
            after == alloc'.global.blocks
        IN  /\ Len(after) = Len(before) + Len(owned)
            /\ SubSeq(after, 1, Len(before)) = before
            /\ \A index \in 1 .. Len(owned) :
                   /\ after[Len(before) + index].lines = owned[index].lines
                   /\ InResetState(after[Len(before) + index])
            /\ alloc'.mailbox[a].bucket.blocks = <<>>
            /\ (before = <<>> /\ Len(owned) = 1) => Len(after) = 1]_vars

\* The allocator was dropped while it owned two blocks, both requested from
\* an empty pool.
C11_Witness ==
    /\ op = "drop"
    /\ Len(alloc.global.blocks) = 2
    /\ alloc.mailbox[1].block_allocations = 2
    /\ alloc.global.created = 2

\* The places of the block at `lines`: a position of the free list of the
\* global allocator, or a position of the block list of a bucket.
PlacesOfBlock(lines) ==
    {<<"global", index>> : index \in
        {position \in DOMAIN alloc.global.blocks :
            alloc.global.blocks[position].lines = lines}}
    \cup
    UNION {{<<a, index>> : index \in
               {position \in DOMAIN alloc.mailbox[a].bucket.blocks :
                   alloc.mailbox[a].bucket.blocks[position].lines = lines}} :
           a \in Allocators}

\* The blocks the global allocator has created, by address.
CreatedBlocks == {created * BLOCK_SIZE : created \in 1 .. alloc.global.created}

\* C12: every block is in exactly one place: in the free list of the global
\* allocator with a null bucket back-pointer, or in the block list of one
\* bucket with its back-pointer equal to that bucket.
C12_BlockInPoolOrInOneBucket ==
    \A lines \in CreatedBlocks :
        /\ Cardinality(PlacesOfBlock(lines)) = 1
        /\ \A index \in DOMAIN alloc.global.blocks :
               alloc.global.blocks[index].lines = lines
                   => alloc.global.blocks[index].bucket = NULL
        /\ \A a \in Allocators :
               \A index \in DOMAIN alloc.mailbox[a].bucket.blocks :
                   alloc.mailbox[a].bucket.blocks[index].lines = lines
                       => alloc.mailbox[a].bucket.blocks[index].bucket = bucket_address(a)

\* The block header a pointer leads to: the address of the block it lies
\* in, found by masking the pointer.
block_header_of(pointer) == pointer - (pointer % BLOCK_SIZE)

\* The blocks of the global allocator and of the buckets.
AllBlocks ==
    {alloc.global.blocks[index] : index \in DOMAIN alloc.global.blocks}
    \cup
    {alloc.local.young_generation.blocks[index] :
        index \in DOMAIN alloc.local.young_generation.blocks}
    \cup
    UNION {{alloc.mailbox[a].bucket.blocks[index] :
               index \in DOMAIN alloc.mailbox[a].bucket.blocks} : a \in Allocators}

\* The buckets at an address.
BucketsAt(address) ==
    {alloc.mailbox[a].bucket : a \in {owner \in Allocators : bucket_address(owner) = address}}
    \cup
    (IF address = young_bucket_address THEN {alloc.local.young_generation} ELSE {})

\* ObjectPointer.is_mailbox: the bucket of the block of the pointer has the
\* age MAILBOX.
is_mailbox(pointer) ==
    \E b \in AllBlocks :
        /\ b.lines = block_header_of(pointer)
        /\ b.bucket # NULL
        /\ \E bucket \in BucketsAt(b.bucket) : bucket.age = MAILBOX

\* C13: a pointer allocate returns lies in the object slots of a block of
\* the allocator's bucket, whose back-pointer is not null and is the address
\* of that bucket, which has the age MAILBOX: is_mailbox holds for it.
C13_AllocatedPointerIsMailbox ==
    op = "allocate" =>
        LET a == alloc.actor
            blocks == alloc.mailbox[a].bucket.blocks
        IN  /\ \E index \in DOMAIN blocks :
                   /\ blocks[index].lines = block_header_of(result)
                   /\ result >= start_address(blocks[index])
                   /\ result < end_address(blocks[index])
                   /\ blocks[index].bucket # NULL
                   /\ blocks[index].bucket = bucket_address(a)
            /\ alloc.mailbox[a].bucket.age = MAILBOX
            /\ is_mailbox(result)

\* The allocation that found the first block allocated to its end and made
\* the bucket request a second block.
C13_Witness ==
    /\ op = "allocate"
    /\ Len(alloc.mailbox[1].bucket.blocks) = 2
    /\ ~can_bump_allocate(alloc.mailbox[1].bucket.blocks[1])
    /\ result = start_address(alloc.mailbox[1].bucket.blocks[2])

\* The addresses of the blocks of a sequence of blocks.
LinesOf(blocks) == {blocks[index].lines : index \in DOMAIN blocks}

\* C16: after reclaim_blocks ends a collection, no block with an empty line
\* bitmap remains in the bucket: the blocks that had one are in the free
\* list of the global allocator, the others remain, and each block that
\* remains is Recyclable if the holes counted over its line bitmap are more
\* than 0 and Full otherwise.
C16_ReclaimKeepsNoEmptyBlock ==
    [][op' = "reclaim_blocks" =>
        LET a == alloc'.actor
            before == alloc.mailbox[a].bucket.blocks
            after == alloc'.mailbox[a].bucket.blocks
            empty == {index \in DOMAIN before : before[index].used_lines_bitmap = {}}
        IN  /\ \A index \in DOMAIN after :
                   /\ after[index].used_lines_bitmap # {}
                   /\ after[index].holes = HoleRuns(after[index].used_lines_bitmap)
                   /\ after[index].status =
                          IF HoleRuns(after[index].used_lines_bitmap) > 0
                          THEN "Recyclable" ELSE "Full"
            /\ LinesOf(after) = {before[index].lines : index \in DOMAIN before \ empty}
            /\ LinesOf(alloc'.global.blocks) =
                   LinesOf(alloc.global.blocks)
                       \cup {before[index].lines : index \in empty}
            /\ Len(alloc'.global.blocks) =
                   Len(alloc.global.blocks) + Cardinality(empty)]_vars

\* A collection has ended over two blocks: the first, with every line
\* marked, remains and is Full; the second, with no line marked, is in the
\* free list.
C16_Witness ==
    /\ op = "reclaim_blocks"
    /\ Len(alloc.mailbox[1].bucket.blocks) = 1
    /\ alloc.mailbox[1].bucket.blocks[1].status = "Full"
    /\ alloc.mailbox[1].bucket.blocks[1].lines = BLOCK_SIZE
    /\ LinesOf(alloc.global.blocks) = {2 * BLOCK_SIZE}

\* The status of the block at `lines` in an allocator state.
StatusOfBlock(state, lines) ==
    LET blocks ==
            {state.global.blocks[index] : index \in DOMAIN state.global.blocks}
            \cup
            UNION {{state.mailbox[a].bucket.blocks[index] :
                       index \in DOMAIN state.mailbox[a].bucket.blocks} :
                   a \in Allocators}
    IN  (CHOOSE b \in blocks : b.lines = lines).status

\* The transitions the state machine of a block lists.
ListedTransitions ==
    {<<"Free", "Full">>, <<"Free", "Recyclable">>, <<"Recyclable", "Full">>}
    \cup {<<status, "Fragmented">> : status \in {"Free", "Recyclable", "Full"}}
    \cup {<<status, "Free">> : status \in {"Recyclable", "Full", "Fragmented"}}

object_value_none == [type |-> "none"]

object_value_integer(integer) == [type |-> "integer", integer |-> integer]

object_value_array(elements) == [type |-> "array", elements |-> elements]

Object_new(value) == [value |-> value, prototype |-> NULL]

\* allocate_copy writing a none object instead of the object given.
MailboxAllocator_allocate_copy_of_none(self, address, global, object) ==
    MailboxAllocator_allocate(self, address, global) @@ [object |-> Object_new(object_value_none)]

\* allocate_copy that leaves the allocator as it was, so that the next call
\* returns the same slot.
MailboxAllocator_allocate_copy_not_advancing(self, address, global, object) ==
    [self |-> self,
     global |-> global,
     pointer |-> MailboxAllocator_allocate(self, address, global).pointer,
     object |-> object]

\* allocate_copy: the allocator and the global allocator afterwards, the
\* pointer returned and the object written to its slot.
MailboxAllocator_allocate_copy(self, address, global, object) ==
    MailboxAllocator_allocate(self, address, global) @@ [object |-> object]

\* ------------------------------------------------------------ copy_object

\* The local heap of the sender: three objects allocated by a local
\* allocator over an empty global allocator.
LocalHeap ==
    LET allocate(heap) ==
            LET allocated == LocalAllocator_allocate_without_prototype(
                                 heap.local, heap.global)
            IN  [local |-> allocated.self,
                 global |-> allocated.global,
                 pointers |-> Append(heap.pointers, allocated.pointer)]
        empty == {[local |-> LocalAllocator_new,
                   global |-> GlobalAllocator_new,
                   pointers |-> <<>>]}
        one == {allocate(heap) : heap \in empty}
        two == {allocate(heap) : heap \in one}
    IN  CHOOSE three \in {allocate(heap) : heap \in two} : TRUE

SourcePointers == {LocalHeap.pointers[index] : index \in DOMAIN LocalHeap.pointers}

\* The values of the objects of the local heap: integers, and arrays of up
\* to two pointers to objects of the local heap.
SourceValues ==
    {object_value_integer(integer) : integer \in {5, 6}}
    \cup {object_value_array(<<>>)}
    \cup {object_value_array(<<one>>) : one \in SourcePointers}
    \cup {object_value_array(<<one, two>>) : one \in SourcePointers, two \in SourcePointers}

\* copy.memory holds the object of each allocated slot, copy.original the
\* objects of the local heap as allocated. copy.visited is the visitation
\* map of the copy_object under way, copy.stack its calls: the source and
\* the target object of each, and the index of the next element to copy.
InitCopy ==
    /\ block = NotConstructed
    /\ op = "new"
    /\ result = NoResult
    /\ fresh_allocations = 0
    /\ alloc = [mailbox |-> [a \in Allocators |-> MailboxAllocator_new],
                local |-> LocalHeap.local,
                collection |-> [a \in Allocators |-> "none"],
                dropped |-> {},
                global |-> LocalHeap.global,
                actor |-> NoActor]
    /\ \E values \in [SourcePointers -> SourceValues] :
           copy = [memory |-> [pointer \in SourcePointers |-> Object_new(values[pointer])],
                   original |-> [pointer \in SourcePointers |-> Object_new(values[pointer])],
                   root |-> LocalHeap.pointers[1],
                   visited |-> <<>>,
                   stack |-> <<>>,
                   status |-> "idle",
                   allocate_copy_calls |-> 0]
    /\ vm = NotConstructed
    /\ lexer = NotConstructed

\* The elements of the object at a pointer: the pointers it holds.
elements_of(memory, pointer) ==
    IF memory[pointer].value.type = "array"
    THEN memory[pointer].value.elements
    ELSE <<>>

\* The state after allocate_copy of the object at `source`, called by the
\* copy_object call whose stack is `stack`.
copy_allocated(source, stack) ==
    CHOOSE copied \in
        {[alloc |-> [alloc EXCEPT !.mailbox[1] = allocated.self,
                                  !.global = allocated.global,
                                  !.actor = 1],
          pointer |-> allocated.pointer,
          object |-> allocated.object,
          visited |-> (source :> allocated.pointer) @@ copy.visited,
          stack |-> Append(stack, [source |-> source,
                                   target |-> allocated.pointer,
                                   next |-> 1])] :
            allocated \in {MailboxAllocator_allocate_copy(
                               alloc.mailbox[1], bucket_address(1), alloc.global,
                               copy.memory[source])}} : TRUE

\* copy_object(root) is called on the mailbox allocator: the root is
\* allocated and entered into the visitation map.
CopyObject ==
    /\ copy.status = "idle"
    /\ \E copied \in {copy_allocated(copy.root, <<>>)} :
           /\ alloc' = copied.alloc
           /\ copy' = [copy EXCEPT
                          !.memory = (copied.pointer :> copied.object) @@ @,
                          !.visited = copied.visited,
                          !.stack = copied.stack,
                          !.status = "copying",
                          !.allocate_copy_calls = @ + 1]
    /\ result' = NoResult
    /\ op' = "copy_object"
    /\ UNCHANGED <<block, fresh_allocations, vm, lexer>>

\* The call at the top of the stack.
top_call == copy.stack[Len(copy.stack)]

\* The next element of the object the top call copies, if one is left.
next_element == elements_of(copy.memory, top_call.source)[top_call.next]

elements_left ==
    /\ copy.status = "copying"
    /\ top_call.next <= Len(elements_of(copy.memory, top_call.source))

\* The next element is an object not yet visited: it is allocated, entered
\* into the visitation map, written to the target and copied in turn.
CopyElement ==
    /\ elements_left
    /\ next_element \notin DOMAIN copy.visited
    /\ \E copied \in {copy_allocated(
                            next_element,
                            [copy.stack EXCEPT ![Len(copy.stack)].next = @ + 1])} :
           /\ alloc' = copied.alloc
           /\ copy' = [copy EXCEPT
                          !.memory = (copied.pointer :> copied.object) @@
                              [@ EXCEPT ![top_call.target].value.elements[top_call.next] =
                                  copied.pointer],
                          !.visited = copied.visited,
                          !.stack = copied.stack,
                          !.allocate_copy_calls = @ + 1]
    /\ result' = NoResult
    /\ op' = "allocate_copy"
    /\ UNCHANGED <<block, fresh_allocations, vm, lexer>>

\* The next element is an object already visited: its copy is written to
\* the target.
CopyVisitedElement ==
    /\ elements_left
    /\ next_element \in DOMAIN copy.visited
    /\ copy' = [copy EXCEPT
                   !.memory[top_call.target].value.elements[top_call.next] =
                       copy.visited[next_element],
                   !.stack[Len(copy.stack)].next = @ + 1]
    /\ result' = NoResult
    /\ op' = "visited"
    /\ UNCHANGED <<block, fresh_allocations, alloc, vm, lexer>>

\* The top call has no element left and returns; the call of the root
\* returns the copy of the root.
CopyReturn ==
    /\ copy.status = "copying"
    /\ ~elements_left
    /\ copy' = [copy EXCEPT
                   !.stack = SubSeq(@, 1, Len(@) - 1),
                   !.status = IF Len(copy.stack) = 1 THEN "done" ELSE @]
    /\ result' = IF Len(copy.stack) = 1 THEN copy.visited[copy.root] ELSE NoResult
    /\ op' = "return"
    /\ UNCHANGED <<block, fresh_allocations, alloc, vm, lexer>>

NextCopy ==
    \/ CopyObject
    \/ CopyElement
    \/ CopyVisitedElement
    \/ CopyReturn

SpecCopy == InitCopy /\ [][NextCopy]_vars

\* copy_object runs in the process that sends: it goes on until it returns.
SpecCopyFair == SpecCopy /\ WF_vars(NextCopy)

\* ------------------------------------------------------------ copy properties

\* C14: copy_object of an object of the local heap into a mailbox allocator
\* returns a pointer to a new slot of the mailbox heap, for which is_mailbox
\* holds and which differs from the source pointer, whose value has the
\* type of the source value and, for an integer, the same integer; the
\* objects of the local heap and the local allocator are left unchanged.
C14_CopyIsInMailboxWithEqualValue ==
    /\ \A pointer \in DOMAIN copy.original :
           copy.memory[pointer] = copy.original[pointer]
    /\ alloc.local = LocalHeap.local
    /\ copy.status = "done" =>
           /\ is_mailbox(result)
           /\ ~is_mailbox(copy.root)
           /\ result # copy.root
           /\ result \notin DOMAIN copy.original
           /\ result \in DOMAIN copy.memory
           /\ copy.memory[result].value.type = copy.memory[copy.root].value.type
           /\ copy.memory[copy.root].value.type = "integer" =>
                  copy.memory[result].value = copy.memory[copy.root].value

\* The integer 5 of the local heap was copied: the copy is the integer 5.
C14_Witness ==
    /\ copy.status = "done"
    /\ copy.original[copy.root].value = object_value_integer(5)
    /\ copy.memory[result].value = object_value_integer(5)

\* The objects reachable from a set of objects of a memory.
RECURSIVE ReachableFrom(_, _)
ReachableFrom(memory, pointers) ==
    LET next == pointers \cup
                UNION {{elements_of(memory, pointer)[index] :
                           index \in DOMAIN elements_of(memory, pointer)} :
                       pointer \in pointers}
    IN  IF next = pointers THEN pointers ELSE ReachableFrom(memory, next)

Reachable == ReachableFrom(copy.original, {copy.root})

\* The copy is isomorphic to the source: the visitation map is a one-to-one
\* map of the reachable source objects to slots of the mailbox heap, and
\* the copy of each object has its value, with each element the copy of the
\* source element.
Isomorphic ==
    /\ DOMAIN copy.visited = Reachable
    /\ \A one \in Reachable, two \in Reachable :
           copy.visited[one] = copy.visited[two] => one = two
    /\ \A source \in Reachable :
           LET from == copy.original[source].value
               to == copy.memory[copy.visited[source]].value
           IN  /\ is_mailbox(copy.visited[source])
               /\ copy.visited[source] \notin DOMAIN copy.original
               /\ to.type = from.type
               /\ from.type = "integer" => to = from
               /\ from.type = "array" =>
                      /\ Len(to.elements) = Len(from.elements)
                      /\ \A index \in DOMAIN from.elements :
                             to.elements[index] = copy.visited[from.elements[index]]

\* C15: copy_object terminates on every source object graph, cyclic ones
\* included; it calls allocate_copy at most once for each reachable source
\* object; and the copy it returns is isomorphic to the source, shared and
\* cyclic references included.
C15_CopyTerminatesIsomorphic ==
    /\ [](copy.allocate_copy_calls <= Cardinality(Reachable))
    /\ [](copy.status = "done" =>
              /\ Isomorphic
              /\ result = copy.visited[copy.root]
              /\ copy.allocate_copy_calls = Cardinality(Reachable))
    /\ <>(copy.status = "done")

\* The copy of a cyclic graph with a shared reference has returned: the
\* root holds the second object twice, and the second object holds the root.
C15_Witness ==
    /\ copy.status = "done"
    /\ \E second \in SourcePointers \ {copy.root} :
           /\ copy.original[copy.root].value = object_value_array(<<second, second>>)
           /\ copy.original[second].value = object_value_array(<<copy.root>>)

\* ------------------------------------------------------------ processes

\* The messages sent at most.
MaxMessages == 3

\* The processes of the process table.
Pids == {1, 2, 3}

\* The processes that send, the pids they send to (4 is the pid of no
\* process) and the processes that receive.
Senders == {1, 2}

SendTargets == {3, 4}

Receivers == {3}

\* The arguments of a send_process_message instruction and of a
\* receive_process_message instruction: registers.
SendInstruction == [arguments |-> <<0, 1, 2>>]

ReceiveInstruction == [arguments |-> <<0>>]

arg(instruction, index) == instruction.arguments[index + 1]

\* No message: the mailbox is empty.
NoMessage == [heap |-> "none"]

\* An object of the local heap or of the mailbox heap of a process.
local_object(process, value) == [heap |-> <<"local", process>>, value |-> value]

mailbox_object(process, value) == [heap |-> <<"mailbox", process>>, value |-> value]

\* Process.send_message on the receiver: the message is copied to the
\* mailbox heap of the receiver and queued behind the messages it holds.
Process_send_message(mailbox, receiver, sender, msg_ptr) ==
    Append(mailbox, mailbox_object(receiver, msg_ptr.value))

\* Process.receive_message: the oldest message is taken from the mailbox
\* and copied to the local heap of the process.
Process_receive_message(mailbox, process) ==
    IF mailbox = <<>>
    THEN [mailbox |-> mailbox, message |-> NoMessage]
    ELSE [mailbox |-> Tail(mailbox),
          message |-> local_object(process, Head(mailbox).value)]

\* send_process_message calling send_message twice.
send_process_message_sending_twice(state, process, instruction) ==
    LET register == arg(instruction, 0)
        pid_ptr == state.registers[process][arg(instruction, 1)]
        msg_ptr == state.registers[process][arg(instruction, 2)]
        pid == pid_ptr.value.integer
        sent == IF pid \in state.process_table
                THEN [state EXCEPT !.mailbox[pid] =
                         Process_send_message(
                             Process_send_message(@, pid, process, msg_ptr),
                             pid, process, msg_ptr)]
                ELSE state
    IN  [state |-> [sent EXCEPT !.registers[process][register] = msg_ptr],
         action |-> "None"]

\* send_process_message without the call of send_message.
send_process_message_not_sending(state, process, instruction) ==
    LET register == arg(instruction, 0)
        msg_ptr == state.registers[process][arg(instruction, 2)]
    IN  [state |-> [state EXCEPT !.registers[process][register] = msg_ptr],
         action |-> "None"]

\* send_process_message setting the register only when the receiver exists.
send_process_message_only_to_known(state, process, instruction) ==
    LET register == arg(instruction, 0)
        pid_ptr == state.registers[process][arg(instruction, 1)]
        msg_ptr == state.registers[process][arg(instruction, 2)]
        pid == pid_ptr.value.integer
    IN  IF pid \in state.process_table
        THEN [state |-> [state EXCEPT
                            !.mailbox[pid] =
                                Process_send_message(@, pid, process, msg_ptr),
                            !.registers[process][register] = msg_ptr],
              action |-> "None"]
        ELSE [state |-> state, action |-> "None"]

\* The state after the instruction and the action it returns.
send_process_message(state, process, instruction) ==
    LET register == arg(instruction, 0)
        pid_ptr == state.registers[process][arg(instruction, 1)]
        msg_ptr == state.registers[process][arg(instruction, 2)]
        pid == pid_ptr.value.integer
        sent == IF pid \in state.process_table
                THEN [state EXCEPT !.mailbox[pid] =
                         Process_send_message(@, pid, process, msg_ptr)]
                ELSE state
    IN  [state |-> [sent EXCEPT !.registers[process][register] = msg_ptr],
         action |-> "None"]

\* receive_process_message clearing the register when it suspends.
receive_process_message_clearing_register(state, process, instruction) ==
    LET register == arg(instruction, 0)
        received == Process_receive_message(state.mailbox[process], process)
    IN  IF received.message # NoMessage
        THEN [state |-> [state EXCEPT !.mailbox[process] = received.mailbox,
                                      !.registers[process][register] = received.message],
              action |-> "None"]
        ELSE [state |-> [state EXCEPT !.mailbox[process] = received.mailbox,
                                      !.registers[process][register] = NoMessage],
              action |-> "Suspend"]

receive_process_message(state, process, instruction) ==
    LET register == arg(instruction, 0)
        received == Process_receive_message(state.mailbox[process], process)
    IN  IF received.message # NoMessage
        THEN [state |-> [state EXCEPT !.mailbox[process] = received.mailbox,
                                      !.registers[process][register] = received.message],
              action |-> "None"]
        ELSE [state |-> [state EXCEPT !.mailbox[process] = received.mailbox],
              action |-> "Suspend"]

\* ------------------------------------------------------------ process operations

\* vm.process_table, vm.registers and vm.mailbox are the state of the
\* machine and of its processes; vm.status is "suspended" for a process
\* whose last instruction returned Action::Suspend, until it runs again;
\* vm.action is the action the last instruction of a process returned.
\* vm.sent[s][r] lists the messages s sent to r and vm.received[r] the
\* messages r received, each in the order of the instructions;
\* vm.resumed[r] holds from the time r runs again to its next receive, and
\* vm.retried[r] tells that the last receive of r was a retry.
InitProcess ==
    /\ block = NotConstructed
    /\ op = "new"
    /\ result = NoResult
    /\ fresh_allocations = 0
    /\ alloc = NotConstructed
    /\ copy = NotConstructed
    /\ lexer = NotConstructed
    /\ vm = [process_table |-> Pids,
             registers |-> [process \in Pids |-> [register \in 0 .. 2 |-> NoMessage]],
             mailbox |-> [process \in Pids |-> <<>>],
             status |-> [process \in Pids |-> "running"],
             action |-> [process \in Pids |-> "None"],
             actor |-> NoActor,
             messages |-> 0,
             sent |-> [sender \in Pids |-> [receiver \in Pids |-> <<>>]],
             received |-> [process \in Pids |-> <<>>],
             resumed |-> [process \in Pids |-> FALSE],
             retried |-> [process \in Pids |-> FALSE]]

outside_processes == <<block, fresh_allocations, alloc, copy, lexer>>

\* Process `sender` executes send_process_message with the pid `target`
\* and a new message in the registers the instruction names.
Send(sender, target) ==
    LET message == <<sender, vm.messages + 1>>
        loaded == [vm EXCEPT
                      !.registers[sender][arg(SendInstruction, 1)] =
                          local_object(sender, object_value_integer(target)),
                      !.registers[sender][arg(SendInstruction, 2)] =
                          local_object(sender, message)]
    IN  /\ vm.status[sender] = "running"
        /\ vm.messages < MaxMessages
        /\ \E executed \in {send_process_message(loaded, sender, SendInstruction)} :
               vm' = [executed.state EXCEPT
                         !.action[sender] = executed.action,
                         !.actor = sender,
                         !.messages = @ + 1,
                         !.sent[sender] =
                             IF target \in vm.process_table
                             THEN [@ EXCEPT ![target] = Append(@, message)]
                             ELSE @]
        /\ result' = NoResult
        /\ op' = "send_process_message"
        /\ UNCHANGED outside_processes

\* Process `receiver` executes receive_process_message; it is suspended if
\* the instruction returns Action::Suspend.
Receive(receiver) ==
    /\ vm.status[receiver] = "running"
    /\ \E executed \in {receive_process_message(vm, receiver, ReceiveInstruction)} :
           vm' = [executed.state EXCEPT
                     !.action[receiver] = executed.action,
                     !.actor = receiver,
                     !.status[receiver] =
                         IF executed.action = "Suspend" THEN "suspended" ELSE "running",
                     !.received[receiver] =
                         IF executed.action = "None"
                         THEN Append(@, executed.state.registers[receiver][
                                            arg(ReceiveInstruction, 0)].value)
                         ELSE @,
                     !.resumed[receiver] = FALSE,
                     !.retried[receiver] = vm.resumed[receiver]]
    /\ result' = NoResult
    /\ op' = "receive_process_message"
    /\ UNCHANGED outside_processes

\* The suspended process `receiver` is run again, and retries the
\* instruction.
Schedule(receiver) ==
    /\ vm.status[receiver] = "suspended"
    /\ vm' = [vm EXCEPT !.status[receiver] = "running",
                        !.actor = receiver,
                        !.resumed[receiver] = TRUE]
    /\ result' = NoResult
    /\ op' = "schedule"
    /\ UNCHANGED outside_processes

NextProcess ==
    \/ \E sender \in Senders, target \in SendTargets : Send(sender, target)
    \/ \E receiver \in Receivers : Receive(receiver)
    \/ \E receiver \in Receivers : Schedule(receiver)

SpecProcess == InitProcess /\ [][NextProcess]_vars

\* Fair scheduling: a suspended process is run again, and a running process
\* executes its instruction.
SpecProcessFair ==
    /\ SpecProcess
    /\ \A receiver \in Receivers :
           WF_vars(Schedule(receiver)) /\ WF_vars(Receive(receiver))

\* ------------------------------------------------------------ process properties

\* The messages of `messages` that `sender` sent, in their order.
FromSender(messages, sender) ==
    SelectSeq(messages, LAMBDA message : message[1] = sender)

\* The messages waiting in a mailbox, oldest first.
Waiting(mailbox) == [index \in DOMAIN mailbox |-> mailbox[index].value]

\* C18: for a sender and a receiver, the messages the receiver has received
\* from the sender, followed by those of the sender that wait in its
\* mailbox, are the messages the sender sent to it, in the order of the
\* sends: none is lost, duplicated or overtaken, whatever other senders
\* send in between.
C18_PerSenderFifo ==
    \A sender \in Senders, receiver \in Receivers :
        vm.sent[sender][receiver] =
            FromSender(vm.received[receiver] \o Waiting(vm.mailbox[receiver]),
                       sender)

\* The receiver has received two messages of sender 1 and, between them, a
\* message of sender 2.
C18_Witness ==
    /\ op = "receive_process_message"
    /\ Len(vm.received[3]) = 3
    /\ vm.received[3][1][1] = 1
    /\ vm.received[3][2][1] = 2
    /\ vm.received[3][3][1] = 1
    /\ vm.sent[1][3] = <<vm.received[3][1], vm.received[3][3]>>

\* The messages sent to `receiver` by completed send_process_message
\* instructions, and those of them it has not received.
SentTo(receiver) ==
    UNION {{vm.sent[sender][receiver][index] :
                index \in DOMAIN vm.sent[sender][receiver]} : sender \in Pids}

NotReceived(receiver) ==
    SentTo(receiver) \ {vm.received[receiver][index] :
                            index \in DOMAIN vm.received[receiver]}

\* C19: a receive_process_message of a process to which a completed
\* send_process_message has sent a message it has not received yet returns
\* Action::None and stores in the target register a pointer, in the local
\* heap of the process, to one of these messages.
C19_SentBeforeReceiveIsFound ==
    [][op' = "receive_process_message" =>
           LET receiver == vm'.actor
               register == arg(ReceiveInstruction, 0)
           IN  NotReceived(receiver) # {} =>
                   /\ vm'.action[receiver] = "None"
                   /\ vm'.registers[receiver][register] # NoMessage
                   /\ vm'.registers[receiver][register].heap = <<"local", receiver>>
                   /\ vm'.registers[receiver][register].value \in NotReceived(receiver)
                   /\ vm'.status[receiver] = "running"]_vars

\* The first receive of the receiver, which was not suspended before, has
\* found the message sent before it.
C19_Witness ==
    /\ op = "receive_process_message"
    /\ vm.action[3] = "None"
    /\ ~vm.retried[3]
    /\ Len(vm.received[3]) = 1
    /\ vm.registers[3][0] = local_object(3, vm.received[3][1])
    /\ vm.received[3][1] \in SentTo(3)

\* C20: receive_process_message on an empty mailbox returns Action::Suspend
\* and leaves the registers of the process as they were; the suspended
\* process, when it runs again, is at the same instruction with its
\* registers and mailbox as they were; and under fair scheduling a process
\* suspended on receive to which a message was sent that it has not
\* received eventually receives another message.
C20_SuspendThenEventuallyReceive ==
    /\ [][/\ op' = "receive_process_message" =>
                 LET receiver == vm'.actor
                 IN  vm.mailbox[receiver] = <<>> =>
                         /\ vm'.action[receiver] = "Suspend"
                         /\ vm'.status[receiver] = "suspended"
                         /\ vm'.registers[receiver] = vm.registers[receiver]
                         /\ vm'.received[receiver] = vm.received[receiver]
          /\ op' = "schedule" =>
                 LET receiver == vm'.actor
                 IN  /\ vm.action[receiver] = "Suspend"
                     /\ vm'.status[receiver] = "running"
                     /\ vm'.registers[receiver] = vm.registers[receiver]
                     /\ vm'.mailbox[receiver] = vm.mailbox[receiver]]_vars
    /\ \A receiver \in Receivers : \A count \in 0 .. MaxMessages :
           (/\ vm.status[receiver] = "suspended"
            /\ NotReceived(receiver) # {}
            /\ Len(vm.received[receiver]) = count)
               ~> (Len(vm.received[receiver]) > count)

\* The receiver was suspended on an empty mailbox, ran again and its retry
\* of the instruction has received a message.
C20_Witness ==
    /\ op = "receive_process_message"
    /\ vm.action[3] = "None"
    /\ vm.retried[3]
    /\ vm.status[3] = "running"
    /\ Len(vm.received[3]) >= 1

\* ------------------------------------------------------------ threads

\* The threads, each running a process with its own mailbox allocator over
\* the one global allocator.
Threads == {1, 2}

\* The mutex of the global allocator is held by no thread.
Unlocked == NoActor

\* alloc.mutex is the thread that holds the mutex of the free list of the
\* global allocator; alloc.pc[t] is the call of the global allocator that
\* thread t is about to make or is in; alloc.pending[t] lists the blocks
\* that reclaim_blocks or drop of thread t has yet to add to the global
\* allocator.
InitThreads ==
    /\ block = NotConstructed
    /\ op = "new"
    /\ result = NoResult
    /\ fresh_allocations = 0
    /\ alloc = [mailbox |-> [t \in Threads |-> MailboxAllocator_new],
                collection |-> [t \in Threads |-> "none"],
                dropped |-> {},
                global |-> GlobalAllocator_new,
                mutex |-> Unlocked,
                pc |-> [t \in Threads |-> "running"],
                pending |-> [t \in Threads |-> <<>>],
                actor |-> NoActor]
    /\ copy = NotConstructed
    /\ lexer = NotConstructed
    /\ vm = NotConstructed

\* Thread t can start an operation of its allocator.
Running(t) ==
    /\ t \notin alloc.dropped
    /\ alloc.pc[t] = "running"
    /\ alloc.collection[t] = "none"

\* allocate of thread t has to request a block.
RequestsBlock(t) ==
    Bucket_allocate(alloc.mailbox[t].bucket, bucket_address(t), alloc.global).new_block

\* Thread t allocates in a block it owns, up to MaxAllocations objects
\* after the first of the block.
AllocateInOwnBlock(t) ==
    /\ Running(t)
    /\ ~RequestsBlock(t)
    /\ \A index \in DOMAIN alloc.mailbox[t].bucket.blocks :
           LET b == alloc.mailbox[t].bucket.blocks[index]
           IN  b.free_pointer <= offset(start_address(b), MaxAllocations)
    /\ \E allocated \in {MailboxAllocator_allocate(alloc.mailbox[t], bucket_address(t),
                                                   alloc.global)} :
           /\ alloc' = [alloc EXCEPT !.mailbox[t] = allocated.self, !.actor = t]
           /\ result' = allocated.pointer
    /\ op' = "allocate"
    /\ UNCHANGED outside_allocators

\* Thread t, in allocate, locks the global allocator for request_block.
LockForRequest(t) ==
    /\ Running(t)
    /\ RequestsBlock(t)
    /\ alloc.mailbox[t].block_allocations < MaxBlockAllocations
    /\ alloc.mutex = Unlocked
    /\ alloc' = [alloc EXCEPT !.mutex = t, !.pc[t] = "request_block", !.actor = t]
    /\ result' = NoResult
    /\ op' = "lock"
    /\ UNCHANGED outside_allocators

\* Thread t, holding the mutex, takes the block request_block hands out,
\* unlocks, and allocates in the block.
AllocateInRequestedBlock(t) ==
    /\ alloc.pc[t] = "request_block"
    /\ alloc.mutex = t
    /\ \E allocated \in {MailboxAllocator_allocate(alloc.mailbox[t], bucket_address(t),
                                                   alloc.global)} :
           /\ alloc' = [alloc EXCEPT !.mailbox[t] = allocated.self,
                                     !.global = allocated.global,
                                     !.mutex = Unlocked,
                                     !.pc[t] = "running",
                                     !.actor = t]
           /\ result' = allocated.pointer
    /\ op' = "allocate with request_block"
    /\ UNCHANGED outside_allocators

\* The collection of the mailbox heap of thread t: prepare_for_collection
\* and the marking of no object or of the first object of each block.
CollectAndMark(t) ==
    LET prepared == MailboxAllocator_prepare_for_collection(alloc.mailbox[t]).self
        blocks == prepared.bucket.blocks
    IN  /\ Running(t)
        /\ blocks # <<>>
        /\ \E choice \in {"none", "first"} :
               alloc' = [alloc EXCEPT
                            !.mailbox[t] =
                                [prepared EXCEPT !.bucket.blocks =
                                    [index \in DOMAIN blocks |->
                                        mark(blocks[index], Survivors[choice])]],
                            !.collection[t] = "marked",
                            !.actor = t]
        /\ result' = NoResult
        /\ op' = "mark"
        /\ UNCHANGED outside_allocators

\* reclaim_blocks of thread t up to its first add_block: the bucket yields
\* its empty blocks.
ReclaimFromBucket(t) ==
    /\ alloc.collection[t] = "marked"
    /\ alloc.pc[t] = "running"
    /\ \E reclaimed \in {Bucket_reclaim_blocks(alloc.mailbox[t].bucket)} :
           alloc' = [alloc EXCEPT !.mailbox[t].bucket = reclaimed.bucket,
                                  !.pending[t] = reclaimed.reclaimed,
                                  !.pc[t] = "add_block",
                                  !.actor = t]
    /\ result' = NoResult
    /\ op' = "reclaim_blocks"
    /\ UNCHANGED outside_allocators

\* drop of thread t up to its first add_block: the bucket is drained and
\* each block is reset.
DrainAndReset(t) ==
    /\ Running(t)
    /\ alloc.mailbox[t].bucket.blocks # <<>>
    /\ alloc' = [alloc EXCEPT
                    !.mailbox[t].bucket.blocks = <<>>,
                    !.pending[t] = [index \in DOMAIN alloc.mailbox[t].bucket.blocks |->
                                       reset(alloc.mailbox[t].bucket.blocks[index])],
                    !.dropped = @ \cup {t},
                    !.pc[t] = "add_block",
                    !.actor = t]
    /\ result' = NoResult
    /\ op' = "drop"
    /\ UNCHANGED outside_allocators

\* Thread t locks the global allocator for add_block.
LockForAdd(t) ==
    /\ alloc.pc[t] = "add_block"
    /\ alloc.pending[t] # <<>>
    /\ alloc.mutex = Unlocked
    /\ alloc' = [alloc EXCEPT !.mutex = t, !.actor = t]
    /\ result' = NoResult
    /\ op' = "lock"
    /\ UNCHANGED outside_allocators

\* Thread t, holding the mutex, adds the next block and unlocks.
AddBlock(t) ==
    /\ alloc.pc[t] = "add_block"
    /\ alloc.mutex = t
    /\ alloc' = [alloc EXCEPT
                    !.global = GlobalAllocator_add_block(@, Head(alloc.pending[t])),
                    !.pending[t] = Tail(@),
                    !.mutex = Unlocked,
                    !.actor = t]
    /\ result' = NoResult
    /\ op' = "add_block"
    /\ UNCHANGED outside_allocators

\* reclaim_blocks or drop of thread t returns.
Added(t) ==
    /\ alloc.pc[t] = "add_block"
    /\ alloc.pending[t] = <<>>
    /\ alloc.mutex # t
    /\ alloc' = [alloc EXCEPT !.pc[t] = "running",
                              !.collection[t] = "none",
                              !.actor = t]
    /\ result' = NoResult
    /\ op' = "added"
    /\ UNCHANGED outside_allocators

NextThreads ==
    \/ \E t \in Threads : AllocateInOwnBlock(t)
    \/ \E t \in Threads : LockForRequest(t)
    \/ \E t \in Threads : AllocateInRequestedBlock(t)
    \/ \E t \in Threads : CollectAndMark(t)
    \/ \E t \in Threads : ReclaimFromBucket(t)
    \/ \E t \in Threads : DrainAndReset(t)
    \/ \E t \in Threads : LockForAdd(t)
    \/ \E t \in Threads : AddBlock(t)
    \/ \E t \in Threads : Added(t)

SpecThreads == InitThreads /\ [][NextThreads]_vars

\* ------------------------------------------------------------ thread properties

\* The places of the block at `lines`: a position of the free list of the
\* global allocator, of the block list of the bucket of a thread, or of the
\* blocks a thread has yet to add.
PlacesOfBlockOfThreads(lines) ==
    {<<"global", index>> : index \in
        {position \in DOMAIN alloc.global.blocks :
            alloc.global.blocks[position].lines = lines}}
    \cup
    UNION {{<<"bucket", t, index>> : index \in
               {position \in DOMAIN alloc.mailbox[t].bucket.blocks :
                   alloc.mailbox[t].bucket.blocks[position].lines = lines}} :
           t \in Threads}
    \cup
    UNION {{<<"pending", t, index>> : index \in
               {position \in DOMAIN alloc.pending[t] :
                   alloc.pending[t][position].lines = lines}} :
           t \in Threads}

\* C21: with the threads calling request_block and add_block under the
\* mutex in any order, every block the global allocator created is in
\* exactly one place (none is lost, none is held twice), and the block
\* request_block hands to an allocator is in the reset state: the allocator
\* finds it as a new block of that address with its bucket set and one
\* object allocated, whatever state the block was added in.
C21_BlocksHandedOnceAndReset ==
    /\ [](\A lines \in CreatedBlocks : Cardinality(PlacesOfBlockOfThreads(lines)) = 1)
    /\ [][op' = "allocate with request_block" =>
              LET t == alloc'.actor
                  blocks == alloc'.mailbox[t].bucket.blocks
                  handed == blocks[Len(blocks)]
              IN  /\ Len(blocks) = Len(alloc.mailbox[t].bucket.blocks) + 1
                  /\ handed = bump_allocate(
                                  set_bucket(reset(Block_new(handed.lines)),
                                             bucket_address(t))).block
                  /\ PlacesOfBlockOfThreads(handed.lines) \subseteq
                         {<<"global", Len(alloc.global.blocks)>>}]_vars

\* Thread 2 was handed the one block there is, which thread 1 had added by
\* reclaim_blocks with its bucket pointer and cursor as they were.
C21_Witness ==
    /\ op = "allocate with request_block"
    /\ alloc.actor = 2
    /\ alloc.global.created = 1
    /\ alloc.dropped = {}
    /\ alloc.mailbox[1].block_allocations = 1
    /\ alloc.mailbox[2].block_allocations = 1
    /\ Len(alloc.mailbox[2].bucket.blocks) = 1
    /\ alloc.mailbox[2].bucket.blocks[1].bucket = bucket_address(2)

\* ------------------------------------------------------------ allocation thresholds

\* The thresholds up to which increment_threshold is called.
MaxThreshold == 4

\* An f64 as the quotient of two integers.  The factors and thresholds of
\* the model are integers over a power of two, small enough that every
\* product is an f64 and no operation rounds.
as_f64(integer) == [numerator |-> integer, denominator |-> 1]

f64_mul(x, y) ==
    [numerator |-> x.numerator * y.numerator,
     denominator |-> x.denominator * y.denominator]

\* f64::floor and f64::ceil of a value that is not negative.
f64_floor(x) == [numerator |-> x.numerator \div x.denominator, denominator |-> 1]

f64_ceil(x) ==
    [numerator |-> (x.numerator + x.denominator - 1) \div x.denominator,
     denominator |-> 1]

\* `as usize` of a value that is not negative and within usize: its integer
\* part.
as_usize(x) == x.numerator \div x.denominator

\* The factors increment_threshold is called with: 0.5, 1.0, 1.25, 1.5, 2.0.
Factors ==
    {[numerator |-> 1, denominator |-> 2],
     [numerator |-> 1, denominator |-> 1],
     [numerator |-> 5, denominator |-> 4],
     [numerator |-> 3, denominator |-> 2],
     [numerator |-> 2, denominator |-> 1]}

\* The thresholds a test assigns to block_allocation_threshold.
AssignedThresholds == {1, 2}

\* increment_threshold rounding down.
MailboxAllocator_increment_threshold_flooring(self, factor) ==
    [self EXCEPT !.block_allocation_threshold =
        as_usize(f64_floor(f64_mul(as_f64(@), factor)))]

MailboxAllocator_increment_threshold(self, factor) ==
    [self EXCEPT !.block_allocation_threshold =
        as_usize(f64_ceil(f64_mul(as_f64(@), factor)))]

\* allocation_threshold_exceeded comparing with >.
MailboxAllocator_allocation_threshold_exceeded_strictly(self) ==
    self.block_allocations > self.block_allocation_threshold

MailboxAllocator_allocation_threshold_exceeded(self) ==
    self.block_allocations >= self.block_allocation_threshold

\* ------------------------------------------------------------ threshold operations

\* alloc.factor is the factor of the last increment_threshold.
InitThreshold ==
    /\ block = NotConstructed
    /\ op = "new"
    /\ result = NoResult
    /\ fresh_allocations = 0
    /\ alloc = [mailbox |-> [a \in Allocators |-> MailboxAllocator_new],
                local |-> LocalAllocator_new,
                collection |-> [a \in Allocators |-> "none"],
                dropped |-> {},
                global |-> GlobalAllocator_new,
                actor |-> NoActor,
                factor |-> as_f64(1)]
    /\ copy = NotConstructed
    /\ lexer = NotConstructed
    /\ vm = NotConstructed

\* The allocator allocates while each of its blocks holds at most
\* MaxAllocations objects.
AllocateFew(a) ==
    /\ \A index \in DOMAIN alloc.mailbox[a].bucket.blocks :
           LET b == alloc.mailbox[a].bucket.blocks[index]
           IN  b.free_pointer <= offset(start_address(b), MaxAllocations)
    /\ Allocate(a)

\* block_allocation_threshold is assigned, as the tests do.
AssignThreshold(a, threshold) ==
    /\ alloc.collection[a] = "none"
    /\ alloc' = [alloc EXCEPT !.mailbox[a].block_allocation_threshold = threshold,
                              !.actor = a]
    /\ result' = NoResult
    /\ op' = "assign threshold"
    /\ UNCHANGED outside_allocators

IncrementThreshold(a, factor) ==
    /\ alloc.collection[a] = "none"
    /\ \E incremented \in {MailboxAllocator_increment_threshold(alloc.mailbox[a], factor)} :
           /\ incremented.block_allocation_threshold <= MaxThreshold
           /\ alloc' = [alloc EXCEPT !.mailbox[a] = incremented,
                                     !.factor = factor,
                                     !.actor = a]
    /\ result' = NoResult
    /\ op' = "increment_threshold"
    /\ UNCHANGED outside_allocators

AllocationThresholdExceeded(a) ==
    /\ alloc' = [alloc EXCEPT !.actor = a]
    /\ result' = MailboxAllocator_allocation_threshold_exceeded(alloc.mailbox[a])
    /\ op' = "allocation_threshold_exceeded"
    /\ UNCHANGED outside_allocators

NextThreshold ==
    \/ \E a \in Allocators : AllocateFew(a)
    \/ \E a \in Allocators : PrepareForCollection(a)
    \/ \E a \in Allocators : Mark(a)
    \/ \E a \in Allocators : ReclaimBlocks(a)
    \/ \E a \in Allocators, threshold \in AssignedThresholds : AssignThreshold(a, threshold)
    \/ \E a \in Allocators, factor \in Factors : IncrementThreshold(a, factor)
    \/ \E a \in Allocators : AllocationThresholdExceeded(a)

SpecThreshold == InitThreshold /\ [][NextThreshold]_vars

\* ------------------------------------------------------------ threshold properties

\* The least integer that is at least numerator / denominator, for a
\* numerator that is not negative.
LeastIntegerAtLeast(numerator, denominator) ==
    CHOOSE k \in 0 .. numerator :
        /\ k * denominator >= numerator
        /\ (k - 1) * denominator < numerator

\* C22: increment_threshold(factor) sets block_allocation_threshold to the
\* least integer that is at least the old threshold times the factor, so
\* threshold 1 with factor 1.5 gives 2; with a factor of 1 or more the
\* threshold does not decrease; block_allocations, the bucket and the
\* global allocator are unchanged.
C22_IncrementThresholdIsCeiling ==
    [][op' = "increment_threshold" =>
           LET a == alloc'.actor
               factor == alloc'.factor
               before == alloc.mailbox[a]
               after == alloc'.mailbox[a]
           IN  /\ after.block_allocation_threshold =
                      LeastIntegerAtLeast(
                          before.block_allocation_threshold * factor.numerator,
                          factor.denominator)
               /\ (before.block_allocation_threshold = 1
                   /\ factor = [numerator |-> 3, denominator |-> 2])
                      => after.block_allocation_threshold = 2
               /\ factor.numerator >= factor.denominator
                      => after.block_allocation_threshold >=
                             before.block_allocation_threshold
               /\ after.block_allocations = before.block_allocations
               /\ after.bucket = before.bucket
               /\ alloc'.global = alloc.global]_vars

\* increment_threshold(1.5) has taken the threshold of an allocator that
\* owns a block from 1 to 2.
C22_Witness ==
    /\ op = "increment_threshold"
    /\ alloc.factor = [numerator |-> 3, denominator |-> 2]
    /\ alloc.mailbox[1].block_allocation_threshold = 2
    /\ alloc.mailbox[1].block_allocations = 1
    /\ alloc.mailbox[1].bucket.blocks # <<>>

\* C23: allocation_threshold_exceeded is true exactly when
\* block_allocations is at least block_allocation_threshold: true when they
\* are equal, false for every smaller count; a new allocator has
\* block_allocations 0 and threshold 32 and is not exceeded.
C23_ExceededFromEqualOn ==
    /\ op = "allocation_threshold_exceeded" =>
           LET self == alloc.mailbox[alloc.actor]
           IN  /\ result \in BOOLEAN
               /\ result <=> self.block_allocations >= self.block_allocation_threshold
               /\ self.block_allocations = self.block_allocation_threshold
                      => result = TRUE
               /\ self.block_allocations < self.block_allocation_threshold
                      => result = FALSE
    /\ op = "new" =>
           \A a \in Allocators :
               /\ alloc.mailbox[a].block_allocations = 0
               /\ alloc.mailbox[a].block_allocation_threshold = 32
               /\ alloc.mailbox[a].block_allocation_threshold * BLOCK_SIZE
                      = 1024 * 1024
               /\ ~MailboxAllocator_allocation_threshold_exceeded(alloc.mailbox[a])

\* allocation_threshold_exceeded has returned true with block_allocations
\* equal to the threshold.
C23_Witness ==
    /\ op = "allocation_threshold_exceeded"
    /\ result = TRUE
    /\ alloc.mailbox[1].block_allocations = 1
    /\ alloc.mailbox[1].block_allocation_threshold = 1

\* C24: block_allocations is the number of blocks the allocator obtained
\* since its last collection cycle: an allocate adds one exactly when it
\* obtains a block, and when reclaim_blocks completes a cycle the count is
\* zero, so that allocation_threshold_exceeded is false after the cycle.
C24_BlockAllocationsSinceLastCycle ==
    [][LET a == alloc'.actor
           before == alloc.mailbox[a]
           after == alloc'.mailbox[a]
       IN  /\ op' = "allocate" =>
                  after.block_allocations =
                      IF Len(after.bucket.blocks) > Len(before.bucket.blocks)
                      THEN before.block_allocations + 1
                      ELSE before.block_allocations
           /\ op' = "reclaim_blocks" =>
                  /\ after.block_allocations = 0
                  /\ ~MailboxAllocator_allocation_threshold_exceeded(after)]_vars

\* ------------------------------------------------------------ arrays

\* The bits of an i64 and of a usize in the model, and the elements of an
\* array at most.
IntegerBits == 4

MaxArrayLength == 3

I64_MIN == 0 - 2 ^ (IntegerBits - 1)

I64_MAX == 2 ^ (IntegerBits - 1) - 1

\* A result outside i64 wrapped into it, and `as usize` of an i64.
i64_wrapping(integer) == ((integer - I64_MIN) % 2 ^ IntegerBits) + I64_MIN

i64_as_usize(integer) == integer % 2 ^ IntegerBits

\* The objects the registers hold: integers, the pointer to the array, and
\* nothing.
ElementValues == {object_value_integer(5), object_value_integer(6)}

\* The registers of the process: those the instructions of the model name.
Registers == 0 .. MaxArrayLength

ArrayPointer == [type |-> "array pointer"]

Undefined == [type |-> "undefined"]

\* int_to_vector_index!(vec, index) for a vector of `length` elements: the
\* index, or a panic where `length as i64 - index` leaves i64 in a build
\* that checks overflow; a build that does not check wraps.
int_to_vector_index(length, index, overflow_checks) ==
    IF index >= 0
    THEN [panic |-> FALSE, index |-> i64_as_usize(index)]
    ELSE IF length - index > I64_MAX /\ overflow_checks
    THEN [panic |-> TRUE, index |-> 0]
    ELSE [panic |-> FALSE, index |-> i64_as_usize(i64_wrapping(length - index))]

\* ensure_array_within_bounds!(array, index) returns the error.
out_of_bounds(vector, index) == index >= Len(vector)

\* Vec::insert and Vec::remove at an index from 0.
Vec_insert(vector, index, value) ==
    SubSeq(vector, 1, index) \o <<value>> \o SubSeq(vector, index + 1, Len(vector))

Vec_remove(vector, index) ==
    SubSeq(vector, 1, index) \o SubSeq(vector, index + 2, Len(vector))

\* copy_if_permanent!(allocator, value, array) for an array that is not
\* permanent: the value.
copy_if_permanent(value_ptr, array_ptr) == value_ptr

\* instruction.arg(index)? for each index below `count`, in order: the
\* instruction has the arguments, or the error is returned.
has_arguments(instruction, count) == Len(instruction.arguments) >= count

\* process.get_register(register)? for the registers that the arguments at
\* `positions` name: each holds an object, or the error is returned.
registers_set(state, instruction, positions) ==
    \A position \in positions :
        state.registers[arg(instruction, position)].type # Undefined.type

\* value.as_array()? and value.as_integer()? return the error for an object
\* of another type.
is_array(pointer) == pointer.type = ArrayPointer.type

is_integer(pointer) == pointer.type = "integer"

\* The instructions: the state afterwards and the result, "Ok" for
\* Ok(Action::None), "Err" for an error, "panic" for a panic.
set_array(state, instruction) ==
    LET register == arg(instruction, 0)
        val_count == Len(instruction.arguments) - 1
        values == [position \in 1 .. val_count |->
                      state.registers[arg(instruction, position)]]
    IN  IF \/ ~has_arguments(instruction, 1)
           \/ ~registers_set(state, instruction, 1 .. val_count)
        THEN [state |-> state, result |-> "Err"]
        ELSE [state |-> [state EXCEPT !.vector = values,
                                      !.registers[register] = ArrayPointer],
              result |-> "Ok"]

array_insert(state, instruction) ==
    LET register == arg(instruction, 0)
        array_ptr == state.registers[arg(instruction, 1)]
        index_ptr == state.registers[arg(instruction, 2)]
        value_ptr == state.registers[arg(instruction, 3)]
        vector == state.vector
        converted == int_to_vector_index(Len(vector), index_ptr.integer,
                                         state.overflow_checks)
        index == converted.index
        value == copy_if_permanent(value_ptr, array_ptr)
    IN  IF \/ ~has_arguments(instruction, 4)
           \/ ~registers_set(state, instruction, 1 .. 3)
           \/ ~is_array(array_ptr)
           \/ ~is_integer(index_ptr)
        THEN [state |-> state, result |-> "Err"]
        ELSE IF converted.panic THEN [state |-> state, result |-> "panic"]
        ELSE IF out_of_bounds(vector, index) THEN [state |-> state, result |-> "Err"]
        ELSE [state |-> [state EXCEPT
                            !.vector = IF index < Len(vector)
                                       THEN [vector EXCEPT ![index + 1] = value]
                                       ELSE Vec_insert(vector, index, value),
                            !.registers[register] = value],
              result |-> "Ok"]

array_at(state, instruction) ==
    LET register == arg(instruction, 0)
        array_ptr == state.registers[arg(instruction, 1)]
        index_ptr == state.registers[arg(instruction, 2)]
        vector == state.vector
        converted == int_to_vector_index(Len(vector), index_ptr.integer,
                                         state.overflow_checks)
        index == converted.index
    IN  IF \/ ~has_arguments(instruction, 3)
           \/ ~registers_set(state, instruction, 1 .. 2)
           \/ ~is_array(array_ptr)
           \/ ~is_integer(index_ptr)
        THEN [state |-> state, result |-> "Err"]
        ELSE IF converted.panic THEN [state |-> state, result |-> "panic"]
        ELSE IF out_of_bounds(vector, index) THEN [state |-> state, result |-> "Err"]
        ELSE [state |-> [state EXCEPT !.registers[register] = vector[index + 1]],
              result |-> "Ok"]

array_remove(state, instruction) ==
    LET register == arg(instruction, 0)
        array_ptr == state.registers[arg(instruction, 1)]
        index_ptr == state.registers[arg(instruction, 2)]
        vector == state.vector
        converted == int_to_vector_index(Len(vector), index_ptr.integer,
                                         state.overflow_checks)
        index == converted.index
    IN  IF \/ ~has_arguments(instruction, 3)
           \/ ~registers_set(state, instruction, 1 .. 2)
           \/ ~is_array(array_ptr)
           \/ ~is_integer(index_ptr)
        THEN [state |-> state, result |-> "Err"]
        ELSE IF converted.panic THEN [state |-> state, result |-> "panic"]
        ELSE IF out_of_bounds(vector, index) THEN [state |-> state, result |-> "Err"]
        ELSE [state |-> [state EXCEPT !.vector = Vec_remove(vector, index),
                                      !.registers[register] = vector[index + 1]],
              result |-> "Ok"]

\* array_length storing the length although an argument or a register is
\* missing.
array_length_unchecked(state, instruction) ==
    [state |-> [state EXCEPT !.registers[IF has_arguments(instruction, 1)
                                         THEN arg(instruction, 0) ELSE 0] =
                                 object_value_integer(Len(state.vector))],
     result |-> "Ok"]

array_length(state, instruction) ==
    LET register == arg(instruction, 0)
        array_ptr == state.registers[arg(instruction, 1)]
        length == Len(state.vector)
    IN  IF \/ ~has_arguments(instruction, 2)
           \/ ~registers_set(state, instruction, {1})
           \/ ~is_array(array_ptr)
        THEN [state |-> state, result |-> "Err"]
        ELSE [state |-> [state EXCEPT !.registers[register] =
                                          object_value_integer(length)],
              result |-> "Ok"]

\* array_clear removing the last element only.
array_clear_removing_last(state, instruction) ==
    IF \/ ~has_arguments(instruction, 1)
       \/ ~registers_set(state, instruction, {0})
       \/ ~is_array(state.registers[arg(instruction, 0)])
    THEN [state |-> state, result |-> "Err"]
    ELSE [state |-> [state EXCEPT !.vector = SubSeq(@, 1, Len(@) - 1)],
          result |-> "Ok"]

array_clear(state, instruction) ==
    LET array_ptr == state.registers[arg(instruction, 0)]
    IN  IF \/ ~has_arguments(instruction, 1)
           \/ ~registers_set(state, instruction, {0})
           \/ ~is_array(array_ptr)
        THEN [state |-> state, result |-> "Err"]
        ELSE [state |-> [state EXCEPT !.vector = <<>>], result |-> "Ok"]

\* ------------------------------------------------------------ array operations

\* vm.vector is the vector of the array object that register 0 points to
\* once set_array has run; vm.overflow_checks tells whether the build
\* checks integer overflow; vm.result is the result of the last
\* instruction and vm.before the registers and the vector it ran on.
InitArrays ==
    /\ block = NotConstructed
    /\ op = "new"
    /\ result = NoResult
    /\ fresh_allocations = 0
    /\ alloc = NotConstructed
    /\ copy = NotConstructed
    /\ lexer = NotConstructed
    /\ \E overflow_checks \in BOOLEAN :
           vm = [vector |-> <<>>,
                 registers |-> [register \in Registers |-> Undefined],
                 overflow_checks |-> overflow_checks,
                 result |-> "Ok",
                 before |-> [vector |-> <<>>,
                             registers |-> [register \in Registers |-> Undefined]]]

\* The instruction has run on the registers and the vector of `loaded`.
Executed(loaded, executed) ==
    vm' = [executed.state EXCEPT
              !.result = executed.result,
              !.before = [vector |-> loaded.vector, registers |-> loaded.registers]]

\* The process has not panicked.
Alive == vm.result # "panic"

\* set_array of the elements, which registers 1 .. hold, into register 0.
SetArray(elements) ==
    LET loaded == [vm EXCEPT !.registers =
                      [register \in Registers |->
                          IF register \in 1 .. Len(elements)
                          THEN elements[register]
                          ELSE vm.registers[register]]]
        instruction == [arguments |-> <<0>> \o [position \in 1 .. Len(elements) |-> position]]
    IN  /\ Alive
        /\ \E executed \in {set_array(loaded, instruction)} : Executed(loaded, executed)
        /\ result' = NoResult
        /\ op' = "set_array"
        /\ UNCHANGED outside_processes

\* array_insert of `value` at `index` into the array of register 0, the
\* result in register 3.
ArrayInsert(index, value) ==
    LET loaded == [vm EXCEPT !.registers[1] = object_value_integer(index),
                             !.registers[2] = value]
    IN  /\ Alive
        /\ vm.registers[0] = ArrayPointer
        /\ \E executed \in {array_insert(loaded, [arguments |-> <<3, 0, 1, 2>>])} :
               Executed(loaded, executed)
        /\ result' = NoResult
        /\ op' = "array_insert"
        /\ UNCHANGED outside_processes

\* array_at of `index`, the result in register 2.
ArrayAt(index) ==
    LET loaded == [vm EXCEPT !.registers[1] = object_value_integer(index)]
    IN  /\ Alive
        /\ vm.registers[0] = ArrayPointer
        /\ \E executed \in {array_at(loaded, [arguments |-> <<2, 0, 1>>])} :
               Executed(loaded, executed)
        /\ result' = NoResult
        /\ op' = "array_at"
        /\ UNCHANGED outside_processes

\* array_remove of `index`, the result in register 2.
ArrayRemove(index) ==
    LET loaded == [vm EXCEPT !.registers[1] = object_value_integer(index)]
    IN  /\ Alive
        /\ vm.registers[0] = ArrayPointer
        /\ \E executed \in {array_remove(loaded, [arguments |-> <<2, 0, 1>>])} :
               Executed(loaded, executed)
        /\ result' = NoResult
        /\ op' = "array_remove"
        /\ UNCHANGED outside_processes

\* The sequences of up to MaxArrayLength elements.
ElementSequences ==
    UNION {[1 .. length -> ElementValues] : length \in 0 .. MaxArrayLength}

NextArrays ==
    \/ \E elements \in ElementSequences : SetArray(elements)
    \/ \E index \in I64_MIN .. I64_MAX, value \in ElementValues : ArrayInsert(index, value)
    \/ \E index \in I64_MIN .. I64_MAX : ArrayAt(index)
    \/ \E index \in I64_MIN .. I64_MAX : ArrayRemove(index)

SpecArrays == InitArrays /\ [][NextArrays]_vars

\* ------------------------------------------------------------ array properties

\* The index the last array instruction was given, and the vector it ran on.
GivenIndex == vm.before.registers[1].integer

GivenVector == vm.before.vector

\* C25: in array_at, array_insert and array_remove an index -k with
\* 1 <= k <= n, on an array of n >= 1 elements, addresses position n - k:
\* the instruction succeeds, array_at and array_remove store the element
\* of that position and array_insert puts the value there.
C25_NegativeIndexCountsFromEnd ==
    (/\ op \in {"array_at", "array_insert", "array_remove"}
     /\ Len(GivenVector) >= 1
     /\ GivenIndex < 0
     /\ 0 - GivenIndex <= Len(GivenVector))
        => LET position == Len(GivenVector) + GivenIndex
           IN  /\ vm.result = "Ok"
               /\ op = "array_at" =>
                      /\ vm.registers[2] = GivenVector[position + 1]
                      /\ vm.vector = GivenVector
               /\ op = "array_remove" =>
                      /\ vm.registers[2] = GivenVector[position + 1]
                      /\ vm.vector = Vec_remove(GivenVector, position)
               /\ op = "array_insert" =>
                      /\ vm.registers[3] = vm.before.registers[2]
                      /\ vm.vector[position + 1] = vm.before.registers[2]

\* C26: array_insert returns an error only when the index is greater than
\* the length of the array; with the index equal to the length it
\* succeeds, appends the value, so that the array is one longer, and
\* stores the value in the result register.
C26_InsertAtLengthAppends ==
    op = "array_insert" =>
        /\ vm.result = "Err" => GivenIndex > Len(GivenVector)
        /\ GivenIndex = Len(GivenVector) =>
               /\ vm.result = "Ok"
               /\ vm.vector = Append(GivenVector, vm.before.registers[2])
               /\ Len(vm.vector) = Len(GivenVector) + 1
               /\ vm.registers[3] = vm.before.registers[2]

\* C27: array_at and array_remove with an index outside 0 .. length - 1
\* return an error and leave the array and the registers as they were;
\* with an index inside, array_at stores the element and leaves the array,
\* and array_remove stores the element and removes it from the array, the
\* others keeping their order.
C27_AtAndRemoveChecked ==
    op \in {"array_at", "array_remove"} =>
        IF GivenIndex \in 0 .. (Len(GivenVector) - 1)
        THEN /\ vm.result = "Ok"
             /\ vm.registers[2] = GivenVector[GivenIndex + 1]
             /\ op = "array_at" => vm.vector = GivenVector
             /\ op = "array_remove" =>
                    /\ Len(vm.vector) = Len(GivenVector) - 1
                    /\ vm.vector = Vec_remove(GivenVector, GivenIndex)
        ELSE /\ vm.result = "Err"
             /\ vm.vector = GivenVector
             /\ vm.registers = vm.before.registers

\* ------------------------------------------------------------ bitmap properties

\* C28: in every block of the allocators and of the global allocator, a
\* set bit i of marked_objects_bitmap has bit i / OBJECTS_PER_LINE of
\* used_lines_bitmap set, through marking, reset_bitmaps and reset.
C28_MarkedObjectInUsedLine ==
    \A b \in AllBlocks :
        \A slot \in b.marked_objects_bitmap :
            /\ OBJECTS_PER_LINE = 4
            /\ Bitmap_is_set(b.used_lines_bitmap, slot \div OBJECTS_PER_LINE)

\* The collector has marked two objects of a block, in lines 1 and 3.
C28_Witness ==
    /\ op = "mark"
    /\ \E b \in AllBlocks :
           /\ b.marked_objects_bitmap = {OBJECT_START_SLOT, OBJECT_START_SLOT + 8}
           /\ b.used_lines_bitmap = {1, 3}

\* C29: for every block, marked_lines_count is the number of set bits of
\* used_lines_bitmap and available_lines_count is 255 less that number,
\* which is never below zero: line 0 is never marked, so at most 255 bits
\* are set; a new block reports 255 available lines.
C29_AvailableLinesNeverNegative ==
    /\ \A b \in AllBlocks :
           /\ marked_lines_count(b) = Cardinality(b.used_lines_bitmap)
           /\ available_lines_count(b) = 255 - marked_lines_count(b)
           /\ available_lines_count(b) >= 0
           /\ ~Bitmap_is_set(b.used_lines_bitmap, 0)
           /\ marked_lines_count(b) <= 255
    /\ \A lines \in CreatedBlocks : available_lines_count(Block_new(lines)) = 255

\* A block with every line but line 0 marked reports no available line.
C29_Witness ==
    \E b \in AllBlocks :
        /\ marked_lines_count(b) = 255
        /\ available_lines_count(b) = 0

\* ------------------------------------------------------------ lexer

\* The characters of an input at most.
MaxInputLength == 3

\* Characters are strings of one character; the classes of the characters
\* the model uses.
Lowercase == {"a", "b", "e", "l", "r", "t", "v"}

Uppercase == {"A", "B"}

Digits == {"0", "1", "2", "9"}

specials ==
    {"!", "@", "#", "$", "%", "^", "&", "*", "(", ")", "-", "_", "+", "=", "\\",
     ":", ";", "\"", "'", "<", ">", "?", "/", ",", ".", " ", "\r", "\n", "|"}

\* The keywords the letters of Lowercase spell.
identifiers ==
    [value \in {<<"l", "e", "t">>, <<"v", "a", "r">>} |->
        IF value = <<"l", "e", "t">> THEN "Let" ELSE "Var"]

\* No character: input.get(position) past the end of the input.
NoChar == ""

\* None, where a token is expected, and the mark of a call that panicked.
NoToken == [token_type |-> "None"]

Panicked == [token_type |-> "panic"]

\* Lexer::new(input)
Lexer_new(input) ==
    [input |-> input, position |-> 0, line |-> 1, column |-> 1, peeked |-> NoToken]

\* self.input.get(position)
get(input, position) ==
    IF position < Len(input) THEN input[position + 1] ELSE NoChar

\* The first position from `position` on whose character is not in `chars`.
skip_while(input, position, chars) ==
    CHOOSE stop \in position .. Len(input) :
        /\ get(input, stop) \notin chars
        /\ \A skipped \in position .. (stop - 1) : get(input, skipped) \in chars

\* The first position from `position` on whose character is in `chars`, or
\* the end of the input.
skip_until(input, position, chars) ==
    CHOOSE stop \in position .. Len(input) :
        /\ get(input, stop) \in chars \cup {NoChar}
        /\ \A skipped \in position .. (stop - 1) : get(input, skipped) \notin chars

\* What a lexing method returns: the lexer afterwards and the token, None
\* or the panic.
lexed(self, token) == [self |-> self, token |-> token]

advance_one(self) ==
    [self EXCEPT !.position = @ + 1, !.column = @ + 1]

advance_line(self) ==
    [self EXCEPT !.position = @ + 1, !.line = @ + 1, !.column = 1]

advance_column(self, amount) == [self EXCEPT !.column = @ + amount]

\* self.token(token_type, start, stop): the token of the slice, at the line
\* and column of the lexer, and the lexer with its column advanced by the
\* characters of the slice; the slice panics if it starts after its end.
token(self, token_type, start, stop) ==
    IF start > stop \/ stop > Len(self.input)
    THEN lexed(self, Panicked)
    ELSE lexed(advance_column(self, stop - start),
               [token_type |-> token_type,
                value |-> SubSeq(self.input, start + 1, stop),
                line |-> self.line,
                column |-> self.column])

\* A token of one character.
single(self, token_type) ==
    LET made == token(self, token_type, self.position, self.position + 1)
    IN  lexed([made.self EXCEPT !.position = @ + 1], made.token)

\* advance_until_special: None, or the lexer moved to the stop position.
advance_until_special(self) ==
    LET start == self.position
        stop == skip_until(self.input, start, specials)
    IN  IF stop = start /\ get(self.input, stop) = NoChar
        THEN [found |-> FALSE, self |-> self, start |-> start, stop |-> stop]
        ELSE [found |-> TRUE, self |-> [self EXCEPT !.position = stop],
              start |-> start, stop |-> stop]

identifier_or_keyword(self) ==
    LET advanced == advance_until_special(self)
        made == token(advanced.self, "Identifier", advanced.start, advanced.stop)
    IN  IF ~advanced.found THEN lexed(self, NoToken)
        ELSE IF made.token.value \in DOMAIN identifiers
        THEN lexed(made.self,
                   [made.token EXCEPT !.token_type = identifiers[made.token.value]])
        ELSE made

constant(self) ==
    LET advanced == advance_until_special(self)
    IN  IF ~advanced.found THEN lexed(self, NoToken)
        ELSE token(advanced.self, "Constant", advanced.start, advanced.stop)

attribute(self) ==
    LET skipped == [self EXCEPT !.position = @ + 1]
        advanced == advance_until_special(skipped)
        made == token(advanced.self, "Attribute", advanced.start, advanced.stop)
    IN  IF ~advanced.found THEN lexed(skipped, NoToken)
        ELSE lexed(advance_column(made.self, 1), made.token)

comment(self) ==
    LET skipped == [self EXCEPT !.position = @ + 1]
        start == skip_while(self.input, skipped.position, {" ", "\t"})
        position == skip_until(self.input, start, {"\r", "\n"})
        made == token(skipped, "Comment", start, position)
    IN  lexed([advance_column(made.self, 1) EXCEPT !.position = position], made.token)

\* The loop of number from `position` on: the position it stops at and the
\* token type, or the failure at a second ".".
RECURSIVE number_loop(_, _, _)
number_loop(input, position, token_type) ==
    LET current == get(input, position)
    IN  IF current = "."
        THEN IF token_type = "Integer"
             THEN number_loop(input, position + 1, "Float")
             ELSE [failed |-> TRUE, position |-> position, token_type |-> token_type]
        ELSE IF current \in Digits \cup {"_"}
        THEN number_loop(input, position + 1, token_type)
        ELSE [failed |-> FALSE, position |-> position, token_type |-> token_type]

\* number that returns its token and leaves the position where it was.
number_not_advancing(self) ==
    LET loop == number_loop(self.input, self.position, "Integer")
    IN  IF loop.failed THEN lexed(self, NoToken)
        ELSE token(self, loop.token_type, self.position, loop.position)

number(self) ==
    LET start == self.position
        loop == number_loop(self.input, start, "Integer")
        made == token(self, loop.token_type, start, loop.position)
    IN  IF loop.failed THEN lexed(self, NoToken)
        ELSE lexed([made.self EXCEPT !.position = loop.position],
                   [made.token EXCEPT !.value =
                       SelectSeq(@, LAMBDA character : character # "_")])

\* The loop of string_with_quote from `position` on: the position it stops
\* at and whether an escaped quote was met.
RECURSIVE string_loop(_, _, _, _)
string_loop(input, position, escaped, has_escape) ==
    LET current == get(input, position)
    IN  IF current = NoChar
        THEN [position |-> position, has_escape |-> has_escape]
        ELSE IF current = escaped
        THEN IF get(input, position - 1) = "\\"
             THEN string_loop(input, position + 1, escaped, TRUE)
             ELSE [position |-> position + 1, has_escape |-> has_escape]
        ELSE string_loop(input, position + 1, escaped, has_escape)

\* value.replace(find, replace), where find is a backslash and the quote
\* and replace is the quote.
RECURSIVE replace_escaped(_, _)
replace_escaped(value, escaped) ==
    IF Len(value) < 2 THEN value
    ELSE IF value[1] = "\\" /\ value[2] = escaped
    THEN <<escaped>> \o replace_escaped(SubSeq(value, 3, Len(value)), escaped)
    ELSE <<value[1]>> \o replace_escaped(Tail(value), escaped)

string_with_quote(self, escaped) ==
    LET skipped == [self EXCEPT !.position = @ + 1]
        start == skipped.position
        loop == string_loop(self.input, start, escaped, FALSE)
        made == token(skipped, "String", start, loop.position - 1)
    IN  IF made.token = Panicked THEN made
        ELSE lexed([advance_column(made.self, 2) EXCEPT !.position = loop.position],
                   IF loop.has_escape
                   THEN [made.token EXCEPT !.value = replace_escaped(@, escaped)]
                   ELSE made.token)

colons(self) ==
    LET start == self.position
        colon_colon == get(self.input, start + 1) = ":"
        position == IF colon_colon THEN start + 2 ELSE start + 1
    IN  token([self EXCEPT !.position = position],
              IF colon_colon THEN "ColonColon" ELSE "Colon", start, position)

operator(self, advance, token_type, assign_type) ==
    LET start == self.position
        assign == get(self.input, start + advance) = "="
        position == IF assign THEN start + advance + 1 ELSE start + advance
    IN  token([self EXCEPT !.position = position],
              IF assign THEN assign_type ELSE token_type, start, position)

\* An operator of one character, or of that character twice.
operator_or_double(self, token_type, assign_type, double_type, double_assign_type) ==
    IF get(self.input, self.position + 1) = get(self.input, self.position)
    THEN operator(self, 2, double_type, double_assign_type)
    ELSE operator(self, 1, token_type, assign_type)

arrow(self) ==
    token([self EXCEPT !.position = @ + 2], "Arrow", self.position, self.position + 2)

sub_or_arrow(self) ==
    IF get(self.input, self.position + 1) = ">"
    THEN arrow(self)
    ELSE operator(self, 1, "Sub", "SubAssign")

\* lower_or_shift_left and greater_or_shift_right.
compare_or_shift(self, token_type, shift_type) ==
    LET start == self.position
        is_shift == get(self.input, start + 1) = get(self.input, start)
        advance == IF is_shift THEN 2 ELSE 1
    IN  token([self EXCEPT !.position = start + advance],
              IF is_shift THEN shift_type ELSE token_type, start, start + advance)

RECURSIVE next_raw(_)
next_raw(self) ==
    LET current == get(self.input, self.position)
        after_return == advance_line(self)
    IN  CASE current = "@" -> attribute(self)
          [] current = "#" -> comment(self)
          [] current \in Digits -> number(self)
          [] current = "{" -> single(self, "CurlyOpen")
          [] current = "}" -> single(self, "CurlyClose")
          [] current = "(" -> single(self, "ParenOpen")
          [] current = ")" -> single(self, "ParenClose")
          [] current = "'" -> string_with_quote(self, "'")
          [] current = "\"" -> string_with_quote(self, "\"")
          [] current = ":" -> colons(self)
          [] current = "/" -> operator(self, 1, "Div", "DivAssign")
          [] current = "%" -> operator(self, 1, "Modulo", "ModuloAssign")
          [] current = "^" -> operator(self, 1, "BitwiseXor", "BitwiseXorAssign")
          [] current = "&" ->
                 operator_or_double(self, "BitwiseAnd", "BitwiseAndAssign",
                                    "And", "AndAssign")
          [] current = "|" ->
                 operator_or_double(self, "BitwiseOr", "BitwiseOrAssign",
                                    "Or", "OrAssign")
          [] current = "*" ->
                 operator_or_double(self, "Mul", "MulAssign", "Pow", "PowAssign")
          [] current = "-" -> sub_or_arrow(self)
          [] current = "+" -> operator(self, 1, "Add", "AddAssign")
          [] current = "=" -> operator(self, 1, "Assign", "Equal")
          [] current = "<" -> compare_or_shift(self, "Lower", "ShiftLeft")
          [] current = ">" -> compare_or_shift(self, "Greater", "ShiftRight")
          [] current = "[" -> single(self, "BracketOpen")
          [] current = "]" -> single(self, "BracketClose")
          [] current = "!" -> operator(self, 1, "Not", "NotEqual")
          [] current = "\r" ->
                 next_raw(IF get(self.input, after_return.position) = "\n"
                          THEN advance_one(after_return)
                          ELSE after_return)
          [] current = "\n" -> next_raw(advance_line(self))
          [] current \in {" ", "\t"} -> next_raw(advance_one(self))
          [] current \in Lowercase -> identifier_or_keyword(self)
          [] current \in Uppercase -> constant(self)
          [] OTHER -> lexed(self, NoToken)

\* peek that hands the token on without keeping it.
Lexer_peek_not_keeping(self) == next_raw(self)

\* next(): the peeked token, taken, or the next token of the input.
Lexer_next(self) ==
    IF self.peeked # NoToken
    THEN lexed([self EXCEPT !.peeked = NoToken], self.peeked)
    ELSE next_raw(self)

\* peek(): the peeked token, after the input was lexed for it if there was
\* none.
Lexer_peek(self) ==
    IF self.peeked = NoToken
    THEN LET raw == next_raw(self)
         IN  IF raw.token = Panicked THEN raw
             ELSE lexed([raw.self EXCEPT !.peeked = raw.token], raw.token)
    ELSE lexed(self, self.peeked)

skip_and_next(self) ==
    LET skipped == Lexer_next(self)
    IN  IF skipped.token = Panicked THEN skipped ELSE Lexer_next(skipped.self)

\* next_type_is(token_type): the lexer afterwards and the boolean, or the
\* panic of peek().
next_type_is(self, token_type) ==
    LET peeked == Lexer_peek(self)
    IN  [self |-> peeked.self,
         panicked |-> peeked.token = Panicked,
         is_type |-> /\ peeked.token \notin {NoToken, Panicked}
                     /\ peeked.token.token_type = token_type]

\* The characters the inputs are made of, and the inputs.
InputCharacters == {"a", "1", ".", "@", " ", "\n", "\r", "'", "="}

RECURSIVE InputsOfLength(_)
InputsOfLength(length) ==
    IF length = 0 THEN {<<>>}
    ELSE {<<character>> \o input :
             character \in InputCharacters, input \in InputsOfLength(length - 1)}

Inputs == UNION {InputsOfLength(length) : length \in 0 .. MaxInputLength}

\* The token types next_type_is is asked for.
AskedTypes == {"Identifier", "Integer"}

\* A lexer of one of the inputs; `returned` is the record of what the calls
\* of next() returned, `last` what the last call of next(), peek() or
\* skip_and_next() returned, `is_type` what next_type_is returned for
\* `asked`.
InitLexer ==
    /\ block = NotConstructed
    /\ op = "new"
    /\ result = NoResult
    /\ fresh_allocations = 0
    /\ alloc = NotConstructed
    /\ copy = NotConstructed
    /\ vm = NotConstructed
    /\ \E input \in Inputs :
           lexer = [self |-> Lexer_new(input),
                    returned |-> <<>>,
                    last |-> NoToken,
                    asked |-> "Identifier",
                    is_type |-> FALSE]

outside_lexer == <<block, result, fresh_allocations, alloc, copy, vm>>

\* The compiler has not panicked, and next() was not called more often
\* than the input has characters, and twice more.
Lexing ==
    /\ lexer.last # Panicked
    /\ Len(lexer.returned) <= Len(lexer.self.input) + 1

\* token = lexer.next()
Next_token ==
    /\ Lexing
    /\ \E called \in {Lexer_next(lexer.self)} :
           lexer' = [lexer EXCEPT
                        !.self = called.self,
                        !.last = called.token,
                        !.returned = IF called.token = Panicked
                                     THEN @ ELSE Append(@, called.token)]
    /\ op' = "next"
    /\ UNCHANGED outside_lexer

\* token = lexer.peek()
Peek ==
    /\ Lexing
    /\ \E called \in {Lexer_peek(lexer.self)} :
           lexer' = [lexer EXCEPT !.self = called.self, !.last = called.token]
    /\ op' = "peek"
    /\ UNCHANGED outside_lexer

\* token = lexer.skip_and_next(): next() twice.
SkipAndNext ==
    /\ Lexing
    /\ \E skipped \in {Lexer_next(lexer.self)}, called \in {skip_and_next(lexer.self)} :
           lexer' = [lexer EXCEPT
                        !.self = called.self,
                        !.last = called.token,
                        !.returned = IF skipped.token = Panicked THEN @
                                     ELSE IF called.token = Panicked
                                     THEN Append(@, skipped.token)
                                     ELSE Append(Append(@, skipped.token), called.token)]
    /\ op' = "skip_and_next"
    /\ UNCHANGED outside_lexer

\* lexer.next_type_is(token_type)
NextTypeIs(token_type) ==
    /\ Lexing
    /\ \E called \in {next_type_is(lexer.self, token_type)} :
           IF called.panicked
           THEN lexer' = [lexer EXCEPT !.self = called.self, !.last = Panicked]
           ELSE lexer' = [lexer EXCEPT !.self = called.self,
                                       !.asked = token_type,
                                       !.is_type = called.is_type]
    /\ op' = "next_type_is"
    /\ UNCHANGED outside_lexer

NextLexer ==
    \/ Next_token
    \/ Peek
    \/ SkipAndNext
    \/ \E token_type \in AskedTypes : NextTypeIs(token_type)

SpecLexer == InitLexer /\ [][NextLexer]_vars

\* ------------------------------------------------------------ lexer properties

\* What the n-th of n >= 1 successive calls of next() returns on a lexer
\* that was never peeked.
RECURSIVE nth_next(_, _)
nth_next(self, n) ==
    LET called == next_raw(self)
    IN  IF n = 1 \/ called.token = Panicked
        THEN called.token
        ELSE nth_next(called.self, n - 1)

\* C30: on every input the calls of next() return the tokens they return
\* when nothing is peeked, whatever calls of peek() and next_type_is() come
\* between them: the n-th token returned is the n-th token of the input.  A
\* peek() after a peek() returns the same token, the next() after a peek()
\* returns the peeked token, and next_type_is tells the type of the token
\* the next() after it returns.
C30_PeekDoesNotConsume ==
    /\ [](\A n \in 1 .. Len(lexer.returned) :
              lexer.returned[n] = nth_next(Lexer_new(lexer.self.input), n))
    /\ [][/\ (op = "peek" /\ lexer.last # Panicked /\ op' \in {"peek", "next"})
                 => lexer'.last = lexer.last
          /\ (op = "peek" /\ lexer.last # Panicked /\ op' = "next_type_is")
                 => lexer'.is_type = (/\ lexer.last # NoToken
                                      /\ lexer.last.token_type = lexer'.asked)
          /\ (op = "next_type_is" /\ lexer.last # Panicked /\ op' = "next")
                 => lexer.is_type = (/\ lexer'.last # NoToken
                                     /\ lexer'.last.token_type = lexer.asked)]_vars

\* After next() returned the first token of an input of two tokens, peek()
\* returned the second, which the lexer keeps and no next() has returned.
C30_Witness ==
    /\ op = "peek"
    /\ lexer.self.input = <<"a", " ", "1">>
    /\ Len(lexer.returned) = 1
    /\ lexer.returned[1].token_type = "Identifier"
    /\ lexer.last.token_type = "Integer"
    /\ lexer.last.column = 3
    /\ lexer.self.peeked = lexer.last
    /\ lexer.self.position = 3

\* The position of the first character of the token that next_raw lexes:
\* the first one from the position of the lexer on that is not white space.
first_character(self) ==
    skip_while(self.input, self.position, {" ", "\t", "\r", "\n"})

\* The position of the first character of what the n-th of n >= 1
\* successive calls of next() returns.
RECURSIVE nth_first_character(_, _)
nth_first_character(self, n) ==
    IF n = 1 THEN first_character(self)
    ELSE nth_first_character(next_raw(self).self, n - 1)

\* The line breaks before `position`: every LF, and every CR that no LF
\* follows.
LineBreaksBefore(input, position) ==
    {break \in 0 .. (position - 1) :
        \/ get(input, break) = "\n"
        \/ get(input, break) = "\r" /\ get(input, break + 1) # "\n"}

\* The 1-based line and column of the character at `position`.
LineOf(input, position) == 1 + Cardinality(LineBreaksBefore(input, position))

ColumnOf(input, position) ==
    position - Cardinality({before \in 0 .. (position - 1) :
                               \E break \in LineBreaksBefore(input, position) :
                                   before <= break})
             + 1

\* C31: every token next() returns carries the 1-based line and column of
\* its first character in the input, where LF, CR and CRLF each end one
\* line and the column of the first character of a line is 1.
C31_TokenAtItsFirstCharacter ==
    \A n \in 1 .. Len(lexer.returned) :
        lexer.returned[n] # NoToken =>
            LET input == lexer.self.input
                first == nth_first_character(Lexer_new(input), n)
            IN  /\ lexer.returned[n].line = LineOf(input, first)
                /\ lexer.returned[n].column = ColumnOf(input, first)

\* ------------------------------------------------------------ hole properties

\* The hole of b was one whole line and is filled: both cursors are at the
\* first slot of the line after it, inside the block.
HoleFilledCompletely(b) ==
    /\ b.free_pointer = b.end_pointer
    /\ LINE_BITMAP_MASK(b.free_pointer) = b.free_pointer
    /\ b.free_pointer # end_address(b)
    /\ line_index_of_pointer(b, b.free_pointer) >= 2

\* The line of the filled hole of b.
FilledLine(b) == line_index_of_pointer(b, b.free_pointer) - 1

\* The lines after line `line` that are not marked as used.
UnsetLinesAfter(b, line) ==
    {unset \in (line + 1) .. (LINES_PER_BLOCK - 1) :
        ~Bitmap_is_set(b.used_lines_bitmap, unset)}

\* C32: find_available_hole called when the hole at line L is filled
\* completely, with some line after L unset, skips no unset line: the new
\* hole is the lowest unset line above L, and the next allocation goes
\* into it; if line L + 1 is unset, into line L + 1.
C32_NoUnsetLineSkipped ==
    [][(/\ op' = "find_available_hole"
        /\ HoleFilledCompletely(block)
        /\ UnsetLinesAfter(block, FilledLine(block)) # {}) =>
          LET hole == Lowest(UnsetLinesAfter(block, FilledLine(block)))
          IN  /\ block'.free_pointer = slot_address(block, hole * OBJECTS_PER_LINE)
              /\ block'.end_pointer = slot_address(block, (hole + 1) * OBJECTS_PER_LINE)
              /\ can_bump_allocate(block')
              /\ line_index_of_pointer(block', bump_allocate(block').pointer) = hole]_vars

\* ------------------------------------------------------------ block memory

\* The cursor of a block is followed through the lines up to MaxCursorLine.
MaxCursorLine == 5

\* A block and its memory: `alloc.written` is the set of the slots the last
\* bump_allocate wrote an object to (ptr::write), and `alloc.returned` the
\* record of the pointers bump_allocate returned since Block::new or the
\* last reset.
InitSlots ==
    /\ \E lines \in BlockAddresses : block = Block_new(lines)
    /\ op = "new"
    /\ result = NoResult
    /\ fresh_allocations = 0
    /\ alloc = [written |-> {}, returned |-> {}]
    /\ copy = NotConstructed
    /\ vm = NotConstructed
    /\ lexer = NotConstructed

\* bump_allocate, called as its callers do when can_bump_allocate holds:
\* the object is written to the slot of the free pointer.
BumpAllocateInMemory ==
    /\ can_bump_allocate(block)
    /\ line_index_of_pointer(block, block.free_pointer) <= MaxCursorLine
    /\ \E allocated \in {bump_allocate(block)} :
           /\ block' = allocated.block
           /\ result' = allocated.pointer
           /\ alloc' = [written |-> {block.free_pointer},
                        returned |-> alloc.returned \cup {allocated.pointer}]
    /\ op' = "bump_allocate"
    /\ fresh_allocations' =
         IF fresh_allocations = NotFresh THEN NotFresh ELSE fresh_allocations + 1
    /\ UNCHANGED <<copy, vm, lexer>>

FindAvailableHoleInMemory ==
    /\ line_index_of_pointer(block, block.free_pointer) <= MaxCursorLine
    /\ FindAvailableHole

\* reset writes to no slot.
ResetInMemory ==
    /\ block' = reset(block)
    /\ result' = NoResult
    /\ op' = "reset"
    /\ fresh_allocations' = 0
    /\ alloc' = [alloc EXCEPT !.returned = {}]
    /\ UNCHANGED <<copy, vm, lexer>>

NextSlots ==
    \/ BumpAllocateInMemory
    \/ FindAvailableHoleInMemory
    \/ SetUsedLine
    \/ SetBucket
    \/ SetRecyclable
    \/ ResetInMemory

SpecSlots == InitSlots /\ [][NextSlots]_vars

\* ------------------------------------------------------------ block memory properties

\* C33: between two resets of a block bump_allocate and find_available_hole
\* never move free_pointer backwards, and bump_allocate never returns a
\* slot that it returned before.
C33_NoSlotReturnedTwice ==
    [][/\ op' \in {"bump_allocate", "find_available_hole"}
           => block'.free_pointer >= block.free_pointer
       /\ op' = "bump_allocate"
           => /\ result' \notin alloc.returned
              /\ Cardinality(alloc'.returned) = Cardinality(alloc.returned) + 1]_vars

\* Seven allocations since the last reset, across two holes, returned seven
\* different slots.
C33_Witness ==
    /\ op = "bump_allocate"
    /\ fresh_allocations = NotFresh
    /\ Cardinality(alloc.returned) = 7
    /\ result = slot_address(block, 18)

\* C34: bump_allocate advances free_pointer by one slot, returns the
\* free_pointer it was called with and writes that slot and no other; the
\* status, the hole count, end_pointer, the bucket back-pointer and both
\* bitmaps stay as they were.  find_available_hole changes no field other
\* than free_pointer and end_pointer, and writes no slot.
C34_CursorOperationsChangeNothingElse ==
    [][/\ op' = "bump_allocate"
           => /\ block' = [block EXCEPT !.free_pointer = offset(block.free_pointer, 1)]
              /\ result' = block.free_pointer
              /\ alloc'.written = {block.free_pointer}
       /\ op' = "find_available_hole"
           => /\ block' = [block EXCEPT !.free_pointer = block'.free_pointer,
                                        !.end_pointer = block'.end_pointer]
              /\ alloc'.written = alloc.written]_vars

\* An allocation into the hole at line 4 of a recyclable block of a bucket
\* with lines 2 and 3 marked as used: the slot written is the one returned.
C34_Witness ==
    /\ op = "bump_allocate"
    /\ block.status = "Recyclable"
    /\ block.bucket # NULL
    /\ block.used_lines_bitmap = {2, 3}
    /\ result = slot_address(block, 16)
    /\ alloc.written = {result}
    /\ block.free_pointer = slot_address(block, 17)
    /\ block.end_pointer = slot_address(block, 20)

\* ------------------------------------------------------------ block requests

\* The blocks a bucket at `address` may own when allocate is called, for
\* the memory at `lines`: a block as request_block hands it out; a block
\* with two objects; a block whose hole at line 2 is filled, with line 3
\* unset or marked as used; and a block allocated to its end, recyclable
\* or full.
OwnedBlocks(lines, address) ==
    LET new == set_bucket(Block_new(lines), address)
        filled_hole == [new EXCEPT !.free_pointer = slot_address(new, 3 * OBJECTS_PER_LINE),
                                   !.end_pointer = slot_address(new, 3 * OBJECTS_PER_LINE),
                                   !.used_lines_bitmap = {1},
                                   !.marked_objects_bitmap = {OBJECT_START_SLOT},
                                   !.status = "Recyclable"]
        consumed == [new EXCEPT !.free_pointer = end_address(new),
                                !.end_pointer = end_address(new),
                                !.used_lines_bitmap = {1},
                                !.marked_objects_bitmap = {OBJECT_START_SLOT}]
    IN  {new,
         [new EXCEPT !.free_pointer = offset(start_address(new), 2)],
         filled_hole,
         [filled_hole EXCEPT !.used_lines_bitmap = {1, 3}],
         [consumed EXCEPT !.status = "Recyclable"],
         [consumed EXCEPT !.status = "Full"]}

\* The buckets of an allocator that has requested `count` blocks: it owns
\* them, in the order of their creation, and allocates into any of them.
OwnedBuckets(count, address) ==
    {[blocks |-> blocks, current_block |-> current, age |-> MAILBOX] :
        blocks \in {owned \in [1 .. count -> UNION {OwnedBlocks(index * BLOCK_SIZE, address) :
                                                       index \in 1 .. count}] :
                       \A index \in 1 .. count : owned[index].lines = index * BLOCK_SIZE},
        current \in 1 .. (IF count = 0 THEN 1 ELSE count)}

\* An allocator that has requested up to MaxBlockAllocations blocks and
\* owns them, over a global allocator whose pool is empty or holds one more
\* block.
InitRequests ==
    /\ block = NotConstructed
    /\ op = "new"
    /\ result = NoResult
    /\ fresh_allocations = 0
    /\ copy = NotConstructed
    /\ lexer = NotConstructed
    /\ vm = NotConstructed
    /\ \E count \in 0 .. MaxBlockAllocations, pooled \in BOOLEAN :
       \E bucket \in OwnedBuckets(count, bucket_address(1)) :
           alloc = [mailbox |-> [a \in Allocators |->
                                    [MailboxAllocator_new EXCEPT
                                        !.bucket = bucket,
                                        !.block_allocations = count]],
                    local |-> LocalAllocator_new,
                    collection |-> [a \in Allocators |-> "none"],
                    dropped |-> {},
                    global |-> [blocks |-> IF pooled
                                           THEN <<Block_new((count + 1) * BLOCK_SIZE)>>
                                           ELSE <<>>,
                                created |-> IF pooled THEN count + 1 ELSE count],
                    actor |-> NoActor]

\* The allocator allocates up to MaxAllocations + 1 objects;
\* fresh_allocations counts them.
AllocateMore(a) ==
    /\ fresh_allocations < MaxAllocations + 1
    /\ \E allocated \in {MailboxAllocator_allocate(alloc.mailbox[a], bucket_address(a),
                                                   alloc.global)} :
           /\ alloc' = [alloc EXCEPT !.mailbox[a] = allocated.self,
                                     !.global = allocated.global,
                                     !.actor = a]
           /\ result' = allocated.pointer
    /\ op' = "allocate"
    /\ fresh_allocations' = fresh_allocations + 1
    /\ UNCHANGED <<block, copy, vm, lexer>>

NextRequests == \E a \in Allocators : AllocateMore(a)

SpecRequests == InitRequests /\ [][NextRequests]_vars

\* ------------------------------------------------------------ block request properties

\* The bucket of the allocator that acted, and the block it allocates into.
BucketOfActor == alloc.mailbox[alloc.actor].bucket

CurrentOfActor == BucketOfActor.blocks[BucketOfActor.current_block]

LastSender == vm.actor

SentPid == vm.registers[LastSender][arg(SendInstruction, 1)].value.integer

SentPointer == vm.registers[LastSender][arg(SendInstruction, 2)]

\* C36: send_process_message sets the result register to the message
\* pointer and returns Action::None whether or not the pid is in the
\* process table.  With a pid that is not, no mailbox changes; with a pid
\* that is, the mailbox of that process is one message longer, the message
\* sent being the last, and no other mailbox changes.
C36_SendToUnknownPidIsNoError ==
    [][op' = "send_process_message" =>
          /\ vm'.registers[LastSender'][arg(SendInstruction, 0)] = SentPointer'
          /\ vm'.action[LastSender'] = "None"
          /\ IF SentPid' \in vm.process_table
             THEN /\ vm'.mailbox[SentPid'] =
                         Append(vm.mailbox[SentPid'],
                                mailbox_object(SentPid', SentPointer'.value))
                  /\ \A other \in Pids \ {SentPid'} :
                         vm'.mailbox[other] = vm.mailbox[other]
             ELSE vm'.mailbox = vm.mailbox]_vars

\* Process 1 sent a message to pid 4, which no process has: the register
\* holds the message pointer, the action is None and every mailbox is
\* empty; process 2 had sent one to process 3 before.
C36_Witness ==
    /\ op = "send_process_message"
    /\ LastSender = 1
    /\ SentPid = 4
    /\ SentPid \notin vm.process_table
    /\ vm.registers[1][0] = local_object(1, <<1, 2>>)
    /\ vm.action[1] = "None"
    /\ Len(vm.mailbox[3]) = 1
    /\ \A process \in Pids \ {3} : vm.mailbox[process] = <<>>

\* ------------------------------------------------------------ array instructions

\* The instructions of array.rs run with any number of their arguments on
\* registers of which one may be unset. The process holds an array in
\* register 0, at first an empty one; the instructions between two array
\* instructions load the other registers anew. vm.name and vm.arguments
\* are the instruction that ran last, vm.before the registers and the
\* vector it ran on, vm.result its result.
InitInstructions ==
    /\ block = NotConstructed
    /\ op = "new"
    /\ result = NoResult
    /\ fresh_allocations = 0
    /\ alloc = NotConstructed
    /\ copy = NotConstructed
    /\ lexer = NotConstructed
    /\ \E overflow_checks \in BOOLEAN :
           vm = [vector |-> <<>>,
                 registers |-> [register \in Registers |-> Undefined],
                 overflow_checks |-> overflow_checks,
                 result |-> "Ok",
                 name |-> "none",
                 arguments |-> <<>>,
                 before |-> [vector |-> <<>>,
                             registers |-> [register \in Registers |-> Undefined]]]

\* The registers with the array in register 0 and `operands` in the
\* registers from 1, those of `unset` holding nothing.
LoadRegisters(operands, unset) ==
    [vm EXCEPT !.registers =
        [register \in Registers |->
            IF register \in unset THEN Undefined
            ELSE IF register = 0 THEN ArrayPointer
            ELSE IF register \in DOMAIN operands THEN operands[register]
            ELSE Undefined]]

\* The instruction `name` has run with `arguments` on `loaded`.
ExecutedInstruction(name, arguments, loaded, executed) ==
    /\ vm' = [executed.state EXCEPT
                 !.result = executed.result,
                 !.name = name,
                 !.arguments = arguments,
                 !.before = [vector |-> loaded.vector,
                             registers |-> loaded.registers]]
    /\ result' = NoResult
    /\ op' = name
    /\ UNCHANGED outside_processes

\* set_array of the elements, which registers 1 .. hold, into register 0,
\* with the first `count` arguments.
RunSetArray(elements, count, unset) ==
    LET loaded == LoadRegisters(elements, unset)
        arguments == SubSeq(<<0>> \o [position \in 1 .. Len(elements) |-> position],
                            1, count)
    IN  /\ Alive
        /\ count <= Len(elements) + 1
        /\ \E executed \in {set_array(loaded, [arguments |-> arguments])} :
               ExecutedInstruction("set_array", arguments, loaded, executed)

\* array_insert of the value of register 2 at the index of register 1 into
\* the array of register 0, the result in register 3.
RunArrayInsert(index, value, count, unset) ==
    LET loaded == LoadRegisters(<<object_value_integer(index), value>>, unset)
        arguments == SubSeq(<<3, 0, 1, 2>>, 1, count)
    IN  /\ Alive
        /\ \E executed \in {array_insert(loaded, [arguments |-> arguments])} :
               ExecutedInstruction("array_insert", arguments, loaded, executed)

\* array_at of the index of register 1, the result in register 2.
RunArrayAt(index, count, unset) ==
    LET loaded == LoadRegisters(<<object_value_integer(index)>>, unset)
        arguments == SubSeq(<<2, 0, 1>>, 1, count)
    IN  /\ Alive
        /\ \E executed \in {array_at(loaded, [arguments |-> arguments])} :
               ExecutedInstruction("array_at", arguments, loaded, executed)

\* array_remove of the index of register 1, the result in register 2.
RunArrayRemove(index, count, unset) ==
    LET loaded == LoadRegisters(<<object_value_integer(index)>>, unset)
        arguments == SubSeq(<<2, 0, 1>>, 1, count)
    IN  /\ Alive
        /\ \E executed \in {array_remove(loaded, [arguments |-> arguments])} :
               ExecutedInstruction("array_remove", arguments, loaded, executed)

\* array_length of the array of register 0, the result in register 2.
RunArrayLength(count, unset) ==
    LET loaded == LoadRegisters(<<>>, unset)
        arguments == SubSeq(<<2, 0>>, 1, count)
    IN  /\ Alive
        /\ \E executed \in {array_length(loaded, [arguments |-> arguments])} :
               ExecutedInstruction("array_length", arguments, loaded, executed)

\* array_clear of the array of register 0.
RunArrayClear(count, unset) ==
    LET loaded == LoadRegisters(<<>>, unset)
        arguments == SubSeq(<<0>>, 1, count)
    IN  /\ Alive
        /\ \E executed \in {array_clear(loaded, [arguments |-> arguments])} :
               ExecutedInstruction("array_clear", arguments, loaded, executed)

\* The indexes the instructions are given: into the array, before it and
\* past it.
GivenIndexes == {-1, 0, 1, MaxArrayLength}

\* The registers that hold nothing when an instruction runs: none, or one.
UnsetRegisters == {{}} \cup {{register} : register \in Registers}

\* The elements set_array is given: up to MaxArrayLength of one value.
GivenElements ==
    {[position \in 1 .. length |-> object_value_integer(5)] :
        length \in 0 .. MaxArrayLength}

NextInstructions ==
    \/ \E elements \in GivenElements, count \in 0 .. MaxArrayLength + 1,
          unset \in UnsetRegisters :
           RunSetArray(elements, count, unset)
    \/ \E index \in GivenIndexes, value \in ElementValues, count \in 0 .. 4,
          unset \in UnsetRegisters :
           RunArrayInsert(index, value, count, unset)
    \/ \E index \in GivenIndexes, count \in 0 .. 3, unset \in UnsetRegisters :
           RunArrayAt(index, count, unset)
    \/ \E index \in GivenIndexes, count \in 0 .. 3, unset \in UnsetRegisters :
           RunArrayRemove(index, count, unset)
    \/ \E count \in 0 .. 2, unset \in UnsetRegisters : RunArrayLength(count, unset)
    \/ \E count \in 0 .. 1, unset \in UnsetRegisters : RunArrayClear(count, unset)

SpecInstructions == InitInstructions /\ [][NextInstructions]_vars

\* ------------------------------------------------------------ argument properties

\* The instruction that ran last was given fewer arguments than it reads.
ArgumentMissing ==
    Len(vm.arguments) < (CASE vm.name = "set_array" -> 1
                           [] vm.name = "array_insert" -> 4
                           [] vm.name = "array_at" -> 3
                           [] vm.name = "array_remove" -> 3
                           [] vm.name = "array_length" -> 2
                           [] vm.name = "array_clear" -> 1
                           [] OTHER -> 0)

\* The positions of the arguments that name a register the instruction
\* reads: all but the first, which names the register of the result;
\* array_clear has no result and reads its first.
ReadPositions ==
    IF vm.name = "array_clear" THEN 1 .. Len(vm.arguments)
    ELSE 2 .. Len(vm.arguments)

UnsetAt(positions) ==
    \E position \in positions :
        vm.before.registers[vm.arguments[position]].type = Undefined.type

\* The two registers hold the same object.
SameObject(pointer, other) ==
    /\ pointer.type = other.type
    /\ pointer.type = "integer" => pointer.integer = other.integer

\* The instruction that ran last changed no register and no array.
NothingChanged ==
    /\ \A register \in Registers :
           SameObject(vm.registers[register], vm.before.registers[register])
    /\ vm.vector = vm.before.vector

\* C37 as stated: an array instruction called with a missing argument or
\* with any argument naming an unset register returns an error and leaves
\* all registers and all arrays unchanged.
C37_AnyUnsetArgumentIsAnError ==
    vm.name # "none" =>
        ((ArgumentMissing \/ UnsetAt(1 .. Len(vm.arguments))) =>
            (vm.result = "Err" /\ NothingChanged))

\* C37, amended: an array instruction called with a missing argument or
\* with an argument naming an unset register that it reads returns an error
\* and leaves all registers and all arrays unchanged, and so does every
\* instruction that returns an error, the bounds error of array_insert
\* included.
C37_UnsetOperandIsAnError ==
    vm.name # "none" =>
        /\ (ArgumentMissing \/ UnsetAt(ReadPositions)) =>
               (vm.result = "Err" /\ NothingChanged)
        /\ vm.result = "Err" => NothingChanged

\* array_length returned the error for the unset register of an array that
\* holds elements.
C37_Witness ==
    /\ vm.name = "array_length"
    /\ vm.arguments = <<2, 0>>
    /\ vm.before.registers[0].type = Undefined.type
    /\ vm.before.vector # <<>>
    /\ vm.result = "Err"

\* The instruction that ran last was given all its arguments, and the
\* registers it reads held objects.
WellFormed == ~ArgumentMissing /\ ~UnsetAt(ReadPositions)

\* C38: array_insert at an index that holds an element replaces that
\* element, keeps the length and the other elements and stores the value in
\* the result register; array_clear leaves the array empty; array_length
\* stores the length and leaves the array as it was.
C38_InsertReplacesClearEmptiesLengthCounts ==
    /\ (/\ vm.name = "array_insert"
        /\ WellFormed
        /\ vm.before.registers[1].integer \in 0 .. Len(vm.before.vector) - 1) =>
           LET index == vm.before.registers[1].integer
               value == vm.before.registers[2]
           IN  /\ vm.result = "Ok"
               /\ Len(vm.vector) = Len(vm.before.vector)
               /\ vm.vector[index + 1] = value
               /\ \A other \in 1 .. Len(vm.vector) :
                      other # index + 1 => vm.vector[other] = vm.before.vector[other]
               /\ SameObject(vm.registers[3], value)
    /\ (vm.name = "array_clear" /\ WellFormed) =>
           /\ vm.result = "Ok"
           /\ Len(vm.vector) = 0
    /\ (vm.name = "array_length" /\ WellFormed) =>
           /\ vm.result = "Ok"
           /\ SameObject(vm.registers[2],
                         object_value_integer(Len(vm.before.vector)))
           /\ vm.vector = vm.before.vector

\* array_insert has replaced the second of three elements by another value.
C38_Witness ==
    /\ vm.name = "array_insert"
    /\ vm.result = "Ok"
    /\ vm.before.vector = [position \in 1 .. 3 |-> object_value_integer(5)]
    /\ vm.vector = <<object_value_integer(5), object_value_integer(6),
                     object_value_integer(5)>>

\* ------------------------------------------------------------ parser

MaxParsedLength == 4

MaxLaterCalls == 2

\* The characters the parsed inputs are made of, and the inputs.
ParsedCharacters == {"a", "1", ".", " ", "&", "|", "'"}

RECURSIVE ParsedOfLength(_)
ParsedOfLength(length) ==
    IF length = 0 THEN {<<>>}
    ELSE {<<character>> \o input :
             character \in ParsedCharacters, input \in ParsedOfLength(length - 1)}

ParsedInputs == UNION {ParsedOfLength(length) : length \in 0 .. MaxParsedLength}

\* Parser::new(input), in parse(). lexer.pc is the loop the parser is in:
\* "parse", "and_expression", "or_expression", and "returned" or "panicked"
\* at the end; `children` counts the nodes pushed, `tokens` the tokens that
\* next() returned, `ended` tells that next_raw has returned None, `last`
\* is what the last next() after parse() returned, of `later` calls.
InitParser ==
    /\ block = NotConstructed
    /\ op = "new"
    /\ result = NoResult
    /\ fresh_allocations = 0
    /\ alloc = NotConstructed
    /\ copy = NotConstructed
    /\ vm = NotConstructed
    /\ \E input \in ParsedInputs :
           lexer = [self |-> Lexer_new(input),
                    pc |-> "parse",
                    children |-> 0,
                    tokens |-> 0,
                    ended |-> FALSE,
                    last |-> NoToken,
                    later |-> 0]

\* The parser runs, and next() has not returned more tokens than the input
\* has characters, and one more.
Parsing(pc) ==
    /\ lexer.pc = pc
    /\ lexer.tokens <= Len(lexer.self.input)

\* next_raw was called, with no token peeked, and returned None.
ReturnedNone(self, called) ==
    self.peeked = NoToken /\ called.token = NoToken

\* while let Some(token) = self.lexer.next(): string(token) is the node of
\* and_expression, or parse returns.
ParseNext ==
    /\ Parsing("parse")
    /\ \E called \in {Lexer_next(lexer.self)} :
           lexer' = [lexer EXCEPT
                        !.self = called.self,
                        !.pc = CASE called.token = Panicked -> "panicked"
                                 [] called.token = NoToken -> "returned"
                                 [] OTHER -> "and_expression",
                        !.tokens = IF called.token \in {Panicked, NoToken}
                                   THEN @ ELSE @ + 1,
                        !.ended = @ \/ ReturnedNone(lexer.self, called)]
    /\ op' = "next"
    /\ UNCHANGED outside_lexer

\* binary_op!: skip_and_next().unwrap() and the node of the right-hand
\* side, string(start); the loop goes on in `pc`, or unwrap panics.
BinaryOp(self, pc) ==
    \E skipped \in {Lexer_next(self)}, called \in {skip_and_next(self)} :
        lexer' = [lexer EXCEPT
                     !.self = called.self,
                     !.pc = IF called.token \in {Panicked, NoToken}
                            THEN "panicked" ELSE pc,
                     !.tokens = IF skipped.token \in {Panicked, NoToken} THEN @
                                ELSE IF called.token \in {Panicked, NoToken}
                                THEN @ + 1
                                ELSE @ + 2,
                     !.ended = @ \/ (skipped.token # Panicked
                                     /\ ReturnedNone(skipped.self, called))]

\* The loop of and_expression: once round.
AndExpression ==
    /\ Parsing("and_expression")
    /\ \E asked \in {next_type_is(lexer.self, "And")} :
           IF asked.panicked
           THEN lexer' = [lexer EXCEPT !.self = asked.self, !.pc = "panicked"]
           ELSE IF asked.is_type
           THEN BinaryOp(asked.self, "and_expression")
           ELSE lexer' = [lexer EXCEPT
                             !.self = asked.self,
                             !.pc = "or_expression",
                             !.ended = @ \/ (/\ lexer.self.peeked = NoToken
                                             /\ asked.self.peeked = NoToken)]
    /\ op' = "and_expression"
    /\ UNCHANGED outside_lexer

\* The loop of or_expression: once round; the right-hand side is an
\* and_expression, and after the loop parse pushes the node.
OrExpression ==
    /\ Parsing("or_expression")
    /\ \E asked \in {next_type_is(lexer.self, "Or")} :
           IF asked.panicked
           THEN lexer' = [lexer EXCEPT !.self = asked.self, !.pc = "panicked"]
           ELSE IF asked.is_type
           THEN BinaryOp(asked.self, "and_expression")
           ELSE lexer' = [lexer EXCEPT
                             !.self = asked.self,
                             !.pc = "parse",
                             !.children = @ + 1,
                             !.ended = @ \/ (/\ lexer.self.peeked = NoToken
                                             /\ asked.self.peeked = NoToken)]
    /\ op' = "or_expression"
    /\ UNCHANGED outside_lexer

\* lexer.next() once parse has returned.
NextAfterParse ==
    /\ lexer.pc = "returned"
    /\ lexer.later < MaxLaterCalls
    /\ \E called \in {Lexer_next(lexer.self)} :
           lexer' = [lexer EXCEPT !.self = called.self,
                                  !.last = called.token,
                                  !.later = @ + 1]
    /\ op' = "next after parse"
    /\ UNCHANGED outside_lexer

NextParser ==
    \/ ParseNext
    \/ AndExpression
    \/ OrExpression
    \/ NextAfterParse

SpecParser == InitParser /\ [][NextParser]_vars

\* The parser is a sequential program: it takes its next step.
SpecParserFair == SpecParser /\ WF_vars(NextParser)

\* ------------------------------------------------------------ parser properties

\* C39 as stated: each call of next() that returns a token strictly
\* advances the input position; in the loop of parse it is the one call.
C39_EveryNextAdvances ==
    [][(lexer.pc = "parse" /\ lexer'.pc = "and_expression") =>
           lexer'.self.position > lexer.self.position]_vars

\* The tokens next() has returned and the token peeked, if any, took one
\* character of the input each, at the least.
TokensConsumeInput ==
    /\ lexer.tokens + (IF lexer.self.peeked # NoToken THEN 1 ELSE 0)
           <= lexer.self.position
    /\ lexer.self.position <= Len(lexer.self.input)
    /\ lexer.children <= lexer.tokens

\* Once next_raw has returned None the position stays, no token is
\* returned or peeked any more, and next() returns None.
NoneStays ==
    lexer.ended =>
        /\ lexer'.self.position = lexer.self.position
        /\ lexer'.self.peeked = NoToken
        /\ lexer'.tokens = lexer.tokens
        /\ lexer'.last = NoToken
        /\ lexer'.ended

\* C39, amended: each token that next() returns was lexed by a call of
\* next_raw, in next() or in an earlier peek(), that strictly advanced the
\* position, so next() returns at most len(input) tokens; once next_raw has
\* returned None the position no longer changes and every later next()
\* returns None; and parse terminates, by returning or by a panic.
C39_TokensBoundedAndParseTerminates ==
    /\ []TokensConsumeInput
    /\ [][NoneStays]_vars
    /\ <>(lexer.pc \in {"returned", "panicked"})

\* parse has returned the node of "a&&a" after next() returned three
\* tokens, and a later next() has returned None.
C39_Witness ==
    /\ lexer.pc = "returned"
    /\ lexer.self.input = <<"a", "&", "&", "a">>
    /\ lexer.children = 1
    /\ lexer.tokens = 3
    /\ lexer.later = 1
    /\ lexer.last = NoToken

====
